---- MODULE Spec2Model ----
(***************************************************************************)
(* A model of the Hansard transcript importer of openparliament:           *)
(*   - parliament/imports/alpheus.py: the tag-handler tree walk, the       *)
(*     speaker-attribution resolver and the statement builder;             *)
(*   - parliament/imports/parl_document.py: import_document and            *)
(*     _align_sequences.                                                   *)
(* Strings are sequences of atoms (words, " ", ":", "(", ")"); the         *)
(* string a sequence stands for is the concatenation of its atoms.         *)
(***************************************************************************)
EXTENDS Integers, Sequences, FiniteSets, TLC

\* the walk of one document (alpheus.parse_tree)
VARIABLES h, stack, nid, pc, doc, log, last

\* the stored document and the last call made on it (import_document)
VARIABLES db, call

\* one call of _align_sequences
VARIABLES al

\* one run of import_document's bilingual merge, and one Statement.save()
VARIABLES mg, sv

\* a second parse_string of the same XML
VARIABLES again

wvars == <<h, stack, nid, pc, doc, log, last>>

ivars == <<db, call>>

vars == <<h, stack, nid, pc, doc, log, last, db, call, al, mg, sv, again>>

\* ------------------------------------------------------------------ bounds

\* elements a walked document holds besides HansardBody and the labels that
\* handle_ParaText reads ahead: speaker scenarios, structural scenarios
MaxNodes == 4

MaxStruct == 3

\* statements a parsed transcript holds (import_document)
MaxParsed == 2

\* statements in the lists _align_sequences is given
MaxOld == 2

MaxNew == 2

\* statements of each language the bilingual merge is given
MaxMerge == 2

\* paragraphs of the statement Statement.save() is given
MaxSaved == 2

\* elements of a document of timestamps, speaker labels and paragraphs
MaxTimed == 4

\* elements of a document of agenda blocks, titles and paragraphs
MaxHeadings == 4

\* statements of a transcript imported again
MaxRefused == 1

\* statements of a transcript imported for the first time
MaxSlugs == 3

\* elements of a document of paragraphs of every kind
MaxParas == 4

\* elements of a document of attributions, blocks and paragraphs
MaxPeople == 4

\* ------------------------------------------------------------- dictionaries

None == "None"

Has(d, k) == k \in DOMAIN d

Get(d, k, default) == IF k \in DOMAIN d THEN d[k] ELSE default

Put(d, k, v) == (k :> v) @@ d

Del(d, k) == [x \in (DOMAIN d) \ {k} |-> d[x]]

EmptyDict == [x \in {} |-> None]

\* dict(a).update(b): b's keys win
Update(a, b) == b @@ a

\* --------------------------------------------------------------- sequences

RECURSIVE SelectAtoms(_, _)
SelectAtoms(s, Keep) ==
    IF s = <<>> THEN <<>>
    ELSE IF Head(s) \in Keep THEN <<Head(s)>> \o SelectAtoms(Tail(s), Keep)
         ELSE SelectAtoms(Tail(s), Keep)

RECURSIVE DropAtoms(_, _)
DropAtoms(s, Drop) ==
    IF s = <<>> THEN <<>>
    ELSE IF Head(s) \in Drop THEN DropAtoms(Tail(s), Drop)
         ELSE <<Head(s)>> \o DropAtoms(Tail(s), Drop)

IsPrefix(p, s) == Len(p) <= Len(s) /\ SubSeq(s, 1, Len(p)) = p

Last(s) == s[Len(s)]

\* ------------------------------------------------------------ text atoms

WS == " "

RECURSIVE LStrip(_)
LStrip(s) == IF s # <<>> /\ Head(s) = WS THEN LStrip(Tail(s)) ELSE s

RECURSIVE RStrip(_)
RStrip(s) == IF s # <<>> /\ Last(s) = WS THEN RStrip(SubSeq(s, 1, Len(s) - 1)) ELSE s

\* str.strip()
Strip(s) == RStrip(LStrip(s))

\* _r_whitespace.sub(' ', s): every run of whitespace becomes one space
RECURSIVE CollapseWS(_)
CollapseWS(s) ==
    IF Len(s) < 2 THEN s
    ELSE IF s[1] = WS /\ s[2] = WS THEN CollapseWS(Tail(s))
         ELSE <<s[1]>> \o CollapseWS(Tail(s))

_tame_whitespace(s) == Strip(CollapseWS(s))

\* the letters of an atom, lower-cased ("" when it holds none)
AtomLetters ==
    [a \in {"Mr.", "Hon.", "Smith", "Jones", "An", "hon.", "member", "Des", "voix",
            "CPC", "hello", "there", WS, ":", "(", ")", "&"}
       |-> CASE a = "Mr." -> "mr" [] a = "Hon." -> "hon" [] a = "Smith" -> "smith"
             [] a = "Jones" -> "jones" [] a = "An" -> "an" [] a = "hon." -> "hon"
             [] a = "member" -> "member" [] a = "Des" -> "des" [] a = "voix" -> "voix"
             [] a = "CPC" -> "cpc" [] a = "hello" -> "hello" [] a = "there" -> "there"
             [] OTHER -> ""]

RECURSIVE _letters_only(_)
_letters_only(s) ==
    IF s = <<>> THEN <<>>
    ELSE IF AtomLetters[Head(s)] = "" THEN _letters_only(Tail(s))
         ELSE <<AtomLetters[Head(s)]>> \o _letters_only(Tail(s))

\* atoms that start with an upper-case letter
UpperAtoms == {"Mr.", "Hon.", "Smith", "Jones", "An", "Des", "CPC"}

HonorificAtoms == {"Mr.", "Hon."}

\* _r_honorific.search(s): an honorific and the whitespace after it, at the start
_r_honorific_search(s) == Len(s) >= 2 /\ s[1] \in HonorificAtoms /\ s[2] = WS

_r_honorific_sub(s) == IF _r_honorific_search(s) THEN SubSeq(s, 3, Len(s)) ELSE s

\* _r_person_label.search(s): ^(Mr\.?\s|Hon\.?\s|An\s[hH]on\.?\s|Des\svoix|...)
_r_person_label_search(s) ==
    \/ _r_honorific_search(s)
    \/ Len(s) >= 4 /\ SubSeq(s, 1, 4) = <<"An", WS, "hon.", WS>>
    \/ Len(s) >= 3 /\ SubSeq(s, 1, 3) = <<"Des", WS, "voix">>

\* _r_indeterminate.search(s): ^(An?|Une)\s
_r_indeterminate_search(s) == Len(s) >= 2 /\ s[1] = "An" /\ s[2] = WS

\* _r_parens.sub('', s): \s*\(.+\)\s* is greedy, from the first "(" that has a
\* ")" at least two atoms later to the last ")", with the whitespace around
_r_parens_sub(s) ==
    LET opens == {i \in 1..Len(s) : s[i] = "(" /\ \E j \in (i+2)..Len(s) : s[j] = ")"}
    IN  IF opens = {} THEN s
        ELSE LET i == CHOOSE x \in opens : \A y \in opens : x <= y
                 j == CHOOSE x \in (i+2)..Len(s) :
                          s[x] = ")" /\ \A y \in (i+2)..Len(s) : s[y] = ")" => y <= x
                 lo == IF i > 1 /\ s[i-1] = WS THEN i - 1 ELSE i
                 hi == IF j < Len(s) /\ s[j+1] = WS THEN j + 1 ELSE j
             IN  SubSeq(s, 1, lo - 1) \o SubSeq(s, hi + 1, Len(s))

_strip_person_name(name) == Strip(_r_honorific_sub(_r_parens_sub(_tame_whitespace(name))))

\* re.search(r'\s?\((.+)\)\s*$', description).group(1), <<>> when no match
context_match(s) ==
    LET opens == {i \in 1..Len(s) : s[i] = "("}
    IN  IF s # <<>> /\ Last(s) = ")" /\ \E i \in opens : i + 1 < Len(s)
        THEN LET i == CHOOSE x \in opens : x + 1 < Len(s) /\ \A y \in opens : x <= y
             IN  SubSeq(s, i + 1, Len(s) - 1)
        ELSE <<>>

\* html.escape(s, quote=False)
escape(s) == [i \in 1..Len(s) |-> IF s[i] = "&" THEN "&amp;" ELSE s[i]]

\* -------------------------------------------------------- content tokens

\* escaped text in a statement's content
Txt(a) == [k |-> "txt", s |-> a, id |-> "", cls |-> "", lang |-> ""]

\* a tag without attributes: "<strong>", "</p>", ...
Code(name) == [k |-> "code", s |-> name, id |-> "", cls |-> "", lang |-> ""]

\* _build_tag('p', p_attrs)
PTag(id, cls, lang) == [k |-> "p", s |-> "<p>", id |-> id, cls |-> cls, lang |-> lang]

\* _build_tag('a', attrs) of handle_Affiliation
ATag(id) == [k |-> "a", s |-> "<a>", id |-> id, cls |-> "related_link politician", lang |-> ""]

TxtSeq(s) == [i \in 1..Len(s) |-> Txt(s[i])]

IsWsTok(t) == t.k = "txt" /\ t.s = WS

RECURSIVE LStripTok(_)
LStripTok(c) == IF c # <<>> /\ IsWsTok(Head(c)) THEN LStripTok(Tail(c)) ELSE c

RECURSIVE RStripTok(_)
RStripTok(c) ==
    IF c # <<>> /\ IsWsTok(Last(c)) THEN RStripTok(SubSeq(c, 1, Len(c) - 1)) ELSE c

RECURSIVE CollapseTok(_)
CollapseTok(c) ==
    IF Len(c) < 2 THEN c
    ELSE IF IsWsTok(c[1]) /\ IsWsTok(c[2]) THEN CollapseTok(Tail(c))
         ELSE <<c[1]>> \o CollapseTok(Tail(c))

\* _tame_whitespace on a statement's content
TameContent(c) == RStripTok(LStripTok(CollapseTok(c)))

\* content.replace('</blockquote><blockquote>', '')
RECURSIVE JoinBlockquotes(_)
JoinBlockquotes(c) ==
    IF Len(c) < 2 THEN c
    ELSE IF c[1] = Code("</blockquote>") /\ c[2] = Code("<blockquote>")
         THEN JoinBlockquotes(SubSeq(c, 3, Len(c)))
         ELSE <<c[1]>> \o JoinBlockquotes(Tail(c))

Digits == {ToString(i) : i \in 0..20}

\* the tokens data-HoCid="(\d+)" matches
HoCidTokens(c) == {i \in 1..Len(c) : c[i].k \in {"p", "a"} /\ c[i].id \in Digits}

\* ------------------------------------------------------- ParseHandler

NO_DESCEND == -1

\* a handler that returns nothing
RetNone == 0

TAG_OPEN == 1
TAG_CLOSE == 2

NoOneLiner == [on |-> FALSE, parent |-> 0]

\* ParseHandler.__init__; err is the exception a handler has raised, if any
NewHandler(language) ==
    [statements |-> <<>>,
     cur |-> <<>>,
     document_language |-> language,
     current_attributes |-> ("language" :> language),
     one_time_attributes |-> EmptyDict,
     in_para |-> FALSE,
     one_liner |-> NoOneLiner,
     people_seen |-> EmptyDict,
     people_types_seen |-> EmptyDict,
     people_contexts |-> EmptyDict,
     main_statement_speaker |-> <<"", <<>>>>,
     err |-> "none"]

Raise(hh, e) == [hh EXCEPT !.err = e]

\* Statement.__init__
NewStatement(attributes, more_attributes) ==
    [meta |-> Update(attributes, more_attributes), content |-> <<>>]

_initialize_statement(hh) ==
    IF hh.cur # <<>> THEN Raise(hh, "AssertionError")
    ELSE [hh EXCEPT !.cur = <<NewStatement(hh.current_attributes, hh.one_time_attributes)>>,
                    !.one_time_attributes = EmptyDict]

\* s is a sequence of content tokens
_add_code(hh, s) ==
    IF s = <<>> THEN hh
    ELSE IF hh.cur = <<>> THEN [_initialize_statement(hh) EXCEPT !.cur[1].content = @ \o s]
    ELSE [hh EXCEPT !.cur[1].content = @ \o s]

\* s is a sequence of text atoms
_add_text(hh, s) == IF s # <<>> THEN _add_code(hh, TxtSeq(escape(s))) ELSE hh

_add_tag_text(hh, el, openclose) ==
    IF openclose = TAG_OPEN
    THEN IF ~el.alpheus_skip_text THEN _add_text(hh, el.text) ELSE hh
    ELSE _add_text(hh, el.tail)

\* the first match of data-HoCid="(\d+)" in content c, "" when there is none
FirstHoCid(c) ==
    IF HoCidTokens(c) = {} THEN ""
    ELSE c[CHOOSE x \in HoCidTokens(c) : \A y \in HoCidTokens(c) : x <= y].id

\* Statement.clean_up_content on the cleaned content c; ok is false when
\* re.search finds no data-HoCid and .group fails
CleanedUp(st, c) ==
    IF Has(st.meta, "id") THEN [ok |-> TRUE, st |-> [st EXCEPT !.content = c]]
    ELSE IF FirstHoCid(c) = "" THEN [ok |-> FALSE, st |-> [st EXCEPT !.content = c]]
    ELSE [ok |-> TRUE, st |-> [meta |-> Put(st.meta, "id", <<"p", FirstHoCid(c)>>), content |-> c]]

clean_up_content(st) == CleanedUp(st, JoinBlockquotes(TameContent(st.content)))

\* a close_statement that appends whatever the statement holds
ClosedUnchecked(hh, r) ==
    IF ~r.ok THEN [hh EXCEPT !.err = "AttributeError"]
    ELSE [hh EXCEPT !.statements = Append(@, r.st), !.cur = <<>>]

\* the test that keeps a statement without content out of the list
HasContent(c) == LStripTok(c) # <<>>

Closed(hh, r) ==
    IF ~r.ok THEN Raise(hh, "AttributeError")
    ELSE IF ~HasContent(r.st.content) THEN Raise(hh, "AlpheusError")
    ELSE [hh EXCEPT !.statements = Append(@, r.st), !.cur = <<>>]

close_statement(hh) ==
    IF hh.cur = <<>> THEN hh ELSE Closed(hh, clean_up_content(hh.cur[1]))

\* an end of the parse that leaves the open statement out
FinalWithoutOpen(hh) == hh

get_final_statements(hh) ==
    IF hh.cur # <<>> /\ LStripTok(hh.cur[1].content) # <<>> THEN close_statement(hh) ELSE hh

\* an is_new_person that does not compare the ids
IsNewPersonByNameOnly(hh, hoc_id, stripped_description) ==
    IF hoc_id # None THEN [ok |-> TRUE, same |-> FALSE]
    ELSE IF ~Has(hh.cur[1].meta, "person_attribution") THEN [ok |-> FALSE, same |-> FALSE]
    ELSE [ok |-> TRUE,
          same |-> _letters_only(stripped_description)
                     = _letters_only(_strip_person_name(hh.cur[1].meta["person_attribution"]))]

\* _new_person.is_new_person: "ok" with the answer, or the failed assertion.
\* True means the attribution is the open statement's speaker again.
is_new_person(hh, hoc_id, stripped_description) ==
    IF /\ hoc_id \notin {None, ""}
       /\ Has(hh.cur[1].meta, "person_id")
       /\ hoc_id = hh.cur[1].meta["person_id"]
    THEN [ok |-> TRUE, same |-> TRUE]
    ELSE IF hoc_id # None THEN [ok |-> TRUE, same |-> FALSE]
    ELSE IF ~Has(hh.cur[1].meta, "person_attribution") THEN [ok |-> FALSE, same |-> FALSE]
    ELSE [ok |-> TRUE,
          same |-> _letters_only(stripped_description)
                     = _letters_only(_strip_person_name(hh.cur[1].meta["person_attribution"]))]

PersonTypeOf(affil_type) ==
    CASE affil_type = "28" -> "witness"
      [] affil_type = "27" -> "clerk"
      [] affil_type = "26" -> "analyst"
      [] OTHER -> ""

\* one_time_attributes['person_id'], from the tag or from people_seen
WithPersonId(o, hh, hoc_id, stripped_description) ==
    IF hoc_id \notin {None, ""} THEN Put(o, "person_id", hoc_id)
    ELSE IF Has(hh.people_seen, stripped_description)
         THEN Put(o, "person_id", hh.people_seen[stripped_description])
         ELSE o

WithPersonType(o, hh, affil_type, stripped_description) ==
    IF PersonTypeOf(affil_type) # "" THEN Put(o, "person_type", PersonTypeOf(affil_type))
    ELSE IF affil_type \in {None, ""} /\ Has(hh.people_types_seen, stripped_description)
         THEN Put(o, "person_type", hh.people_types_seen[stripped_description])
         ELSE o

WithPersonContext(o, hh, description, stripped_description) ==
    IF context_match(description) # <<>> THEN Put(o, "person_context", context_match(description))
    ELSE IF Has(hh.people_contexts, stripped_description)
         THEN Put(o, "person_context", hh.people_contexts[stripped_description])
         ELSE o

\* d[key] = v for both keys, when v was observed
Remember(d, keys, present, v) ==
    IF present THEN [k \in DOMAIN d \cup keys |-> IF k \in keys THEN v ELSE d[k]] ELSE d

\* "Save backreferences in case we later lack extra data"
Remembered(hh, o, hoc_id, keys) ==
    [hh EXCEPT
       !.one_time_attributes = o,
       !.people_seen = Remember(@, keys, hoc_id \notin {None, ""}, hoc_id),
       !.people_types_seen =
           Remember(@, keys, Get(o, "person_type", "") # "", Get(o, "person_type", "")),
       !.people_contexts =
           Remember(@, keys, Get(o, "person_context", <<>>) # <<>>, Get(o, "person_context", <<>>))]

\* the part of _new_person after the same-speaker test
RecordPerson(hh, hoc_id, description, stripped_description, affil_type) ==
    Remembered(hh,
        WithPersonContext(
            WithPersonType(
                WithPersonId(Put(hh.one_time_attributes, "person_attribution", description),
                             hh, hoc_id, stripped_description),
                hh, affil_type, stripped_description),
            hh, description, stripped_description),
        hoc_id, {description, stripped_description})

\* a test that lets an indeterminate label continue the statement too
ContinuesWhenSame(t, description) == t.same

\* "If this 'new person' is the same as the last person, don't start a new
\* statement (though if it's 'An hon. member', two in a row can be different)"
ContinuesStatement(t, description) == t.same /\ ~_r_indeterminate_search(description)

AfterClose(h1, hoc_id, description, stripped_description, affil_type) ==
    IF h1.err # "none" THEN h1
    ELSE RecordPerson(h1, hoc_id, description, stripped_description, affil_type)

Decided(hh, t, hoc_id, description, stripped_description, affil_type) ==
    IF ~t.ok THEN Raise(hh, "AssertionError")
    ELSE IF ContinuesStatement(t, description) THEN hh
    ELSE AfterClose(close_statement(hh), hoc_id, description, stripped_description, affil_type)

NewPersonTamed(hh, hoc_id, description, stripped_description, affil_type) ==
    IF hh.cur # <<>>
    THEN Decided(hh, is_new_person(hh, hoc_id, stripped_description),
                 hoc_id, description, stripped_description, affil_type)
    ELSE RecordPerson(hh, hoc_id, description, stripped_description, affil_type)

_new_person(hh, hoc_id, description, affil_type) ==
    NewPersonTamed(hh, hoc_id, _tame_whitespace(description),
                   _strip_person_name(_tame_whitespace(description)), affil_type)

_is_person(hh) ==
    IF hh.cur # <<>> THEN Get(hh.cur[1].meta, "person_attribution", <<>>) # <<>>
    ELSE Get(hh.one_time_attributes, "person_attribution", <<>>) # <<>>

\* ------------------------------------------------------------ elements

NoAffil == [present |-> FALSE, text |-> <<>>, DbId |-> None, Type |-> None, tail |-> <<>>]

NoLead == [present |-> FALSE, tag |-> "", text |-> <<>>, tail |-> <<>>, DbId |-> None,
           nxt |-> <<>>]

\* An element as the handlers read it.  text and tail are el.text and el.tail
\* (<<>> when None); id, DbId, Type, TocType, Interjection, language, Hr and Mn
\* are attributes (None when absent); aff is the Affiliation child a
\* PersonSpeaking reads with xpath; lead is list(el)[0] of a ParaText with its
\* next sibling's text; quote is el.xpath('.//QuotePara'); inner is
\* _text_content(el) before whitespace taming; parent and ptag are
\* el.getparent() and its tag.
BaseEl(tag) ==
    [tag |-> tag, nid |-> 0, parent |-> 0, ptag |-> "", text |-> <<>>, tail |-> <<>>,
     id |-> None, DbId |-> None, Type |-> None, TocType |-> None, Interjection |-> FALSE,
     language |-> None, Hr |-> None, Mn |-> None, alpheus_skip_text |-> FALSE,
     aff |-> NoAffil, lead |-> NoLead, quote |-> FALSE, inner |-> <<>>]

\* what a handler returns: the handler's state, its return value, and the
\* changes it made to the tree ahead of the walk (forced: list(el)[0] as
\* handle_ParaText left it; said: the paragraph's "He said:" is to be cut)
R(hh, ret) == [h |-> hh, ret |-> ret, forced |-> <<>>, said |-> FALSE]

_text_content(el) == _tame_whitespace(el.inner)

\* _following_char(el): the first non-blank character after the element
_following_char(tail, nxt) ==
    IF Strip(tail) # <<>> THEN Strip(tail)[1]
    ELSE IF Strip(nxt) # <<>> THEN Strip(nxt)[1]
    ELSE ""

\* _r_housemet.search(text)
_r_housemet_search(text) ==
    Len(LStrip(text)) >= 3 /\ LStrip(text)[1] = "The House met at" /\ LStrip(text)[2] = WS
        /\ LStrip(text)[3] \in {"10", "14"}

\* _get_housemet_time, in minutes after midnight
_get_housemet_time(text) == IF LStrip(text)[3] = "10" THEN 600 ELSE 840

\* the "MONSTER IF" of handle_ParaText: the paragraph opens with a new speaker
LooksLikeNewSpeaker(el, mytext) ==
    LET sub0 == el.lead
        t == Strip(sub0.text)
        f == _following_char(sub0.tail, sub0.nxt)
    IN  /\ mytext = <<>>
        /\ sub0.present
        /\ sub0.tag \in {"B", "Affiliation"}
        /\ t # <<>>
        /\ t[1] \in UpperAtoms
        /\ f # ""
        /\ \/ Last(t) = ":"
           \/ f = ":"
           \/ el.Interjection
           \/ _r_person_label_search(t) /\ f \in UpperAtoms

\* self.one_liner after a paragraph that opens with a speaker label
OneLinerFor(hh, el, hoc_id, person_attribution) ==
    IF /\ hoc_id # hh.main_statement_speaker[1]
       /\ ~IsPrefix(_letters_only(person_attribution),
                    _letters_only(hh.main_statement_speaker[2]))
       /\ ~_r_honorific_search(person_attribution)
    THEN [on |-> TRUE, parent |-> el.parent]
    ELSE NoOneLiner

\* "It looks like a new speaker": nocolon is sub[0].text.replace(':', '')
LabelledSpeaker(hh, el, hoc_id, nocolon) ==
    _new_person([hh EXCEPT !.one_liner = OneLinerFor(hh, el, hoc_id, _tame_whitespace(nocolon))],
                hoc_id, Strip(nocolon), None)

ClearOneLiner(h1) == IF h1.err # "none" THEN h1 ELSE [h1 EXCEPT !.one_liner = NoOneLiner]

\* "The last paragraph was a quick interjection -- switch back to the
\* previous speaker if one wasn't labelled"
SwitchBack(hh, el) ==
    ClearOneLiner(IF hh.one_liner.parent = el.parent
                  THEN _new_person(hh, hh.main_statement_speaker[1],
                                   hh.main_statement_speaker[2], None)
                  ELSE hh)

\* the speaker-change part of handle_ParaText on TAG_OPEN
ParaSpeaker(hh, el, mytext) ==
    IF LooksLikeNewSpeaker(el, mytext)
    THEN LabelledSpeaker(hh, el,
                         IF el.lead.tag = "Affiliation" THEN el.lead.DbId ELSE None,
                         DropAtoms(el.lead.text, {":"}))
    ELSE IF hh.one_liner.on THEN SwitchBack(hh, el)
    ELSE hh

\* list(el)[0] after handle_ParaText took it for a speaker label
SkippedLead(sub0) ==
    [BaseEl(sub0.tag) EXCEPT
        !.text = sub0.text,
        !.tail = IF Last(sub0.text) # ":" /\ sub0.tail # <<>> /\ sub0.tail[1] = ":"
                 THEN Tail(sub0.tail) ELSE sub0.tail,
        !.DbId = sub0.DbId,
        !.alpheus_skip_text = TRUE]

\* a test that looks at the element and the speaker only
ProceduralByTagOnly(hh, mytext, procedural) == procedural \/ ~_is_person(hh)

ParaIsProcedural(hh, mytext, procedural) ==
    \/ procedural
    \/ ~_is_person(hh)
    \/ mytext # <<>> /\ mytext[1] \in {"moved", "demande"}
    \/ mytext # <<>> /\ mytext[1] \in {"(", "["}

\* p_attrs of the paragraph
ParaTag(hh, el, proc) ==
    PTag(IF el.id = None THEN "0" ELSE el.id,
         IF proc THEN "procedural" ELSE "",
         IF ~proc /\ Get(hh.current_attributes, "language", None) # None
         THEN hh.current_attributes["language"] ELSE "")

MarkNonProcedural(hh, proc) ==
    IF proc THEN hh
    ELSE IF hh.cur # <<>>
         THEN [hh EXCEPT !.cur[1].meta = Put(@, "has_non_procedural", TRUE)]
         ELSE [hh EXCEPT !.one_time_attributes = Put(@, "has_non_procedural", TRUE)]

OpenBlockquote(hh, el) == IF el.quote THEN _add_code(hh, <<Code("<blockquote>")>>) ELSE hh

\* handle_ParaText from self.in_para = True on
ParaBody(h2, el, mytext, proc) ==
    _add_tag_text(
        _add_code(OpenBlockquote(MarkNonProcedural(h2, proc), el), <<ParaTag(h2, el, proc)>>),
        el, TAG_OPEN)

ParaOpened(h1, el, mytext, procedural) ==
    IF h1.err # "none" THEN R(h1, RetNone)
    ELSE [h |-> ParaBody([h1 EXCEPT !.in_para = TRUE], el, mytext,
                         ParaIsProcedural([h1 EXCEPT !.in_para = TRUE], mytext, procedural)),
          ret |-> RetNone,
          forced |-> IF LooksLikeNewSpeaker(el, mytext) THEN <<SkippedLead(el.lead)>> ELSE <<>>,
          said |-> mytext # <<>> /\ mytext[1] \in {"moved", "demande"}]

handle_ParaText_open(hh, el, procedural) ==
    IF _r_housemet_search(Strip(el.text)) /\ el.ptag = "Intro" /\ el.text # <<>>
    THEN R([hh EXCEPT !.current_attributes =
                Put(@, "timestamp", _get_housemet_time(el.text))], NO_DESCEND)
    ELSE ParaOpened(ParaSpeaker(hh, el, Strip(el.text)), el, Strip(el.text), procedural)

CloseBlockquote(hh, el) == IF el.quote THEN _add_code(hh, <<Code("</blockquote>")>>) ELSE hh

handle_ParaText_close(hh, el) ==
    IF ~hh.in_para THEN R(Raise(hh, "AssertionError"), RetNone)
    ELSE IF Strip(el.tail) # <<>> THEN R(Raise(hh, "AssertionError"), RetNone)
    ELSE R(CloseBlockquote(_add_code([hh EXCEPT !.in_para = FALSE], <<Code("</p>")>>), el),
           RetNone)

handle_ParaText(hh, el, openclose, procedural) ==
    IF openclose = TAG_OPEN THEN handle_ParaText_open(hh, el, procedural)
    ELSE handle_ParaText_close(hh, el)

handle_ProceduralText(hh, el, openclose) ==
    IF Strip(el.tail) # <<>> THEN R(Raise(hh, "AssertionError"), RetNone)
    ELSE IF el.TocType = "TPC"
         THEN R(hh, IF openclose = TAG_OPEN THEN NO_DESCEND ELSE RetNone)
         ELSE handle_ParaText(hh, el, openclose, TRUE)

handle_B(hh, el, openclose) ==
    R(_add_tag_text(
        IF ~el.alpheus_skip_text
        THEN _add_code(hh, <<Code(IF openclose = TAG_CLOSE THEN "</strong>" ELSE "<strong>")>>)
        ELSE hh,
        el, openclose), RetNone)

handle_Line(hh, el, openclose) ==
    R(_add_tag_text(IF openclose = TAG_CLOSE THEN _add_code(hh, <<Code("<br>")>>) ELSE hh,
                    el, openclose), RetNone)

\* handle_PersonSpeaking after self._new_person(...)
Spoke(h1, affil, content) ==
    IF h1.err # "none" THEN R(h1, RetNone)
    ELSE IF content # <<>> /\ content[1] # "("
         THEN R(_add_text([h1 EXCEPT !.main_statement_speaker = <<affil.DbId, affil.text>>],
                          content), NO_DESCEND)
         ELSE R([h1 EXCEPT !.main_statement_speaker = <<affil.DbId, affil.text>>], NO_DESCEND)

handle_PersonSpeaking(hh, el, openclose) ==
    IF openclose # TAG_OPEN THEN R(hh, RetNone)
    ELSE IF ~el.aff.present \/ el.aff.text = <<>> THEN R(hh, NO_DESCEND)
    ELSE Spoke(_new_person(hh, el.aff.DbId, el.aff.text, el.aff.Type), el.aff,
               Strip(DropAtoms(el.aff.tail, {":"})))

handle_Intervention(hh, el, openclose) ==
    IF openclose = TAG_OPEN
    THEN R([hh EXCEPT !.one_time_attributes =
                Put(Put(@, "intervention_type", el.Type), "id", <<el.id>>)], RetNone)
    ELSE R(close_statement(hh), RetNone)

handle_SubjectOfBusinessQualifier(hh, el, openclose) ==
    R([hh EXCEPT !.current_attributes = Put(@, "h3", _text_content(el))], NO_DESCEND)

handle_SubjectOfBusinessTitle(hh, el, openclose) ==
    R([hh EXCEPT !.current_attributes = Put(@, "h2", _text_content(el))], NO_DESCEND)

\* a handle_SubjectOfBusiness that leaves the headings alone
SubjectOfBusinessKeepsH3(hh, el, openclose) == R(hh, RetNone)

handle_SubjectOfBusiness(hh, el, openclose) ==
    IF openclose = TAG_CLOSE /\ Has(hh.current_attributes, "h3")
    THEN R([hh EXCEPT !.current_attributes = Del(@, "h3")], RetNone)
    ELSE R(hh, RetNone)

\* s.title() of the atoms that are all upper case or all lower case
TitleAtom(a) == CASE a = "ROUTINE" -> "Routine" [] a = "routine" -> "Routine" [] OTHER -> a

\* _smart_title(s): s.title() if s.isupper() or s.islower()
_smart_title(s) ==
    IF /\ \E i \in 1..Len(s) : s[i] \in {"ROUTINE", "routine"}
       /\ \/ \A i \in 1..Len(s) : s[i] \in {"ROUTINE", WS}
          \/ \A i \in 1..Len(s) : s[i] \in {"routine", WS}
    THEN [i \in 1..Len(s) |-> TitleAtom(s[i])]
    ELSE s

handle_OrderOfBusiness(hh, el, openclose) ==
    IF openclose = TAG_CLOSE
    THEN R([hh EXCEPT !.current_attributes = Del(Del(@, "h1"), "h2")], RetNone)
    ELSE R(hh, RetNone)

handle_OrderOfBusinessTitle(hh, el, openclose) ==
    R([hh EXCEPT !.current_attributes = Put(@, "h1", _smart_title(_text_content(el)))],
      NO_DESCEND)

\* h3.lower().startswith('question')
StartsWithQuestion(t) == t # <<>> /\ t[1] \in {"Question", "question", "QUESTION"}

\* el.inner is the text of the QuestionID child, <<>> when there is none
handle_WrittenQuestionResponse(hh, el, openclose) ==
    IF openclose = TAG_OPEN
    THEN IF el.inner # <<>>
         THEN R([hh EXCEPT !.current_attributes =
                     Put(@, "h3", Strip(DropAtoms(_text_content(el), {"--"})))], RetNone)
         ELSE R(hh, RetNone)
    ELSE IF StartsWithQuestion(Get(hh.current_attributes, "h3", <<>>))
         THEN R([hh EXCEPT !.current_attributes = Del(@, "h3")], RetNone)
         ELSE R(hh, RetNone)

handle_QuestionContent(hh, el, openclose) ==
    IF openclose = TAG_OPEN
    THEN R([hh EXCEPT !.one_time_attributes = Put(@, "written_question", "question")], RetNone)
    ELSE R(close_statement(hh), RetNone)

handle_ResponseContent(hh, el, openclose) ==
    IF openclose = TAG_OPEN
    THEN R([hh EXCEPT !.one_time_attributes = Put(@, "written_question", "response")], RetNone)
    ELSE R(close_statement(hh), RetNone)

handle_Affiliation(hh, el, openclose) ==
    R(_add_tag_text(
        IF ~el.alpheus_skip_text /\ el.DbId \notin {None, ""}
        THEN _add_code(hh, <<IF openclose = TAG_OPEN THEN ATag(el.DbId) ELSE Code("</a>")>>)
        ELSE hh,
        el, openclose), RetNone)

\* int() of the Hr and Mn attributes; el.get('Mn', 0) when Mn is absent
IntOf(a) == CASE a = "10" -> 10 [] a = "14" -> 14 [] a = "05" -> 5 [] OTHER -> 0

\* _time_to_datetime(hour, minute, date), in minutes of the day
_time_to_datetime(hour, minute) == hour * 60 + minute

\* a back-fill that reaches only a statement without a timestamp
BackFilledWhenNone(h1) ==
    IF h1.cur # <<>> /\ ~Has(h1.cur[1].meta, "timestamp")
    THEN [h1 EXCEPT !.cur[1].meta = Put(@, "timestamp", h1.current_attributes["timestamp"])]
    ELSE h1

\* a back-fill that reaches the last finalized statement when none is open
BackFilledAny(h1) ==
    IF h1.cur = <<>> /\ h1.statements # <<>>
    THEN [h1 EXCEPT !.statements[Len(h1.statements)].meta =
              Put(@, "timestamp", h1.current_attributes["timestamp"])]
    ELSE h1

\* the timestamp applies to the current statement if it has only had
\* procedural text so far
BackFilled(h1) ==
    IF h1.cur # <<>> /\ ~Get(h1.cur[1].meta, "has_non_procedural", FALSE)
    THEN [h1 EXCEPT !.cur[1].meta = Put(@, "timestamp", h1.current_attributes["timestamp"])]
    ELSE h1

\* @_only_open
handle_Timestamp(hh, el, openclose) ==
    IF openclose # TAG_OPEN THEN R(hh, RetNone)
    ELSE IF el.Hr \in {None, ""} THEN R(hh, NO_DESCEND)
    ELSE R(BackFilled([hh EXCEPT !.current_attributes =
                           Put(@, "timestamp",
                               _time_to_datetime(IntOf(el.Hr), IntOf(el.Mn)))]),
           NO_DESCEND)

EXCLUDE_TAGS == {"CatchLine", "Prayer", "QuestionID", "Appendix"}

PASSTHROUGH_TAGS ==
    [t \in {"I", "Sup", "Sub", "table", "row", "entry"} |->
        CASE t = "I" -> "em" [] t = "Sup" -> "sup" [] t = "Sub" -> "sub"
          [] t = "table" -> "table" [] t = "row" -> "tr" [] t = "entry" -> "td"]

IGNORE_TAGS ==
    {"Quote", "QuotePara", "ForceColumnBreak", "SubjectOfBusinessContent", "Content",
     "HansardBody", "Intro", "Poetry", "Query", "Motion", "MotionBody", "CommitteeQuote",
     "LegislationQuote", "Pause", "StartPause", "EndPause", "Date", "Insertion", "colspec",
     "tgroup", "tbody", "thead", "title", "EditorsNotes"} \cup DOMAIN PASSTHROUGH_TAGS

\* '<%s%s>' % ('/' if openclose == TAG_CLOSE else '', PASSTHROUGH_TAGS[el.tag])
PassthroughCode(tag, openclose) ==
    [Code(PASSTHROUGH_TAGS[tag]) EXCEPT !.cls = IF openclose = TAG_CLOSE THEN "/" ELSE ""]

DefaultText(h1, el, openclose) == IF h1.in_para THEN _add_tag_text(h1, el, openclose) ELSE h1

\* the passthrough tag and the text _default_handler adds before it checks the tag
DefaultAdded(hh, el, openclose) ==
    DefaultText(IF el.tag \in DOMAIN PASSTHROUGH_TAGS
                THEN _add_code(hh, <<PassthroughCode(el.tag, openclose)>>)
                ELSE hh,
                el, openclose)

\* a check that takes every tag it does not know for an ignored one
DefaultCheckedWithoutError(h1, el, openclose) == R(h1, RetNone)

\* "I don't know how to handle tag"
DefaultChecked(h1, el, openclose) ==
    IF openclose = TAG_OPEN /\ el.tag \notin IGNORE_TAGS
    THEN R(Raise(h1, "AlpheusError"), RetNone)
    ELSE R(h1, RetNone)

_default_handler(hh, el, openclose) ==
    IF el.tag \in EXCLUDE_TAGS THEN R(hh, NO_DESCEND)
    ELSE DefaultChecked(DefaultAdded(hh, el, openclose), el, openclose)

\* the tags ParseHandler defines a handle_ method for
HandledTags ==
    {"ParaText", "ProceduralText", "B", "Line", "PersonSpeaking", "Questioner", "Responder",
     "Intervention", "SubjectOfBusinessQualifier", "SubjectOfBusinessTitle",
     "SubjectOfBusiness", "QuestionContent", "ResponseContent", "Affiliation", "Timestamp",
     "OrderOfBusiness", "OrderOfBusinessTitle", "WrittenQuestionResponse"}

\* ParseHandler.__getattr__ and the class's own methods: the handler's name
HandlerFor(tag) ==
    IF tag \in HandledTags
    THEN IF tag \in {"Questioner", "Responder"} THEN "PersonSpeaking" ELSE tag
    ELSE "_default_handler"

\* getattr(handler, 'handle_' + el.tag)(el, openclose)
Dispatch(hh, el, openclose) ==
    LET n == HandlerFor(el.tag)
    IN  CASE n = "ParaText" -> handle_ParaText(hh, el, openclose, FALSE)
          [] n = "ProceduralText" -> handle_ProceduralText(hh, el, openclose)
          [] n = "B" -> handle_B(hh, el, openclose)
          [] n = "Line" -> handle_Line(hh, el, openclose)
          [] n = "PersonSpeaking" -> handle_PersonSpeaking(hh, el, openclose)
          [] n = "Intervention" -> handle_Intervention(hh, el, openclose)
          [] n = "SubjectOfBusinessQualifier" -> handle_SubjectOfBusinessQualifier(hh, el, openclose)
          [] n = "SubjectOfBusinessTitle" -> handle_SubjectOfBusinessTitle(hh, el, openclose)
          [] n = "SubjectOfBusiness" -> handle_SubjectOfBusiness(hh, el, openclose)
          [] n = "QuestionContent" -> handle_QuestionContent(hh, el, openclose)
          [] n = "ResponseContent" -> handle_ResponseContent(hh, el, openclose)
          [] n = "Affiliation" -> handle_Affiliation(hh, el, openclose)
          [] n = "Timestamp" -> handle_Timestamp(hh, el, openclose)
          [] n = "OrderOfBusiness" -> handle_OrderOfBusiness(hh, el, openclose)
          [] n = "OrderOfBusinessTitle" -> handle_OrderOfBusinessTitle(hh, el, openclose)
          [] n = "WrittenQuestionResponse" -> handle_WrittenQuestionResponse(hh, el, openclose)
          [] OTHER -> _default_handler(hh, el, openclose)

\* ------------------------------------------------------------ parse_tree

\* One frame of _explore_element's recursion: the element whose children are
\* being walked; forced holds children the tree is known to start with; said
\* is set when a "moved" paragraph has marked its next ParaText sibling.
Frame(el, forced) == [el |-> el, forced |-> forced, said |-> FALSE]

Top == stack[Len(stack)]

\* a walk that descends whatever the handler returned
DescendsAlways(ret) == TRUE

\* el_handler(el, TAG_OPEN) != NO_DESCEND
Descends(ret) == ret # NO_DESCEND

\* re.sub(r'^\s*([S]?[hH]e said:|--)\s*', '', nxt.text)
CutHeSaid(text) ==
    IF LStrip(text) # <<>> /\ LStrip(text)[1] \in {"He said:", "--"}
    THEN LStrip(Tail(LStrip(text))) ELSE text

\* the element as the walk meets it below the frame on top of the stack
Numbered(el0) ==
    [el0 EXCEPT !.nid = nid.n + 1,
                !.parent = IF stack = <<>> THEN 0 ELSE Top.el.nid,
                !.ptag = IF stack = <<>> THEN "" ELSE Top.el.tag,
                !.id = IF @ = "auto" THEN ToString(nid.n + 1) ELSE @,
                !.text = IF stack # <<>> /\ Top.said /\ el0.tag = "ParaText" /\ ~el0.quote
                         THEN CutHeSaid(@) ELSE @]

\* one call of a handler, as the walk made it; label is the speaker label
\* handle_ParaText finds at the head of the paragraph, if any
LogEntry(el, openclose, ret) ==
    [nid |-> el.nid, parent |-> el.parent, tag |-> el.tag, handler |-> HandlerFor(el.tag),
     oc |-> openclose, ret |-> ret,
     label |-> IF el.tag = "ParaText" /\ LooksLikeNewSpeaker(el, Strip(el.text))
               THEN _tame_whitespace(DropAtoms(el.lead.text, {":"})) ELSE <<>>]

\* the call is kept for a second parse of the same string, if one is to come
Recorded(el, openclose, ret) ==
    IF again.pc = "idle"
    THEN [again EXCEPT !.events = Append(@, [el |-> el, oc |-> openclose, ret |-> ret])]
    ELSE again

\* the frames below a child that has been opened
Under(el, r, free) ==
    IF stack = <<>> THEN <<>>
    ELSE [stack EXCEPT ![Len(stack)].forced = IF free THEN @ ELSE Tail(@),
                       ![Len(stack)].said =
                           IF r.said THEN TRUE
                           ELSE IF el.tag = "ParaText" /\ ~el.quote THEN FALSE
                           ELSE @]

\* _explore_element(el) after el_handler(el, TAG_OPEN) returned or raised r
Explored(el, r, free) ==
    /\ h' = r.h
    /\ last' = [el |-> el, oc |-> TAG_OPEN, pre |-> h]
    /\ log' = Append(log, LogEntry(el, TAG_OPEN, r.ret))
    /\ nid' = [n |-> nid.n + 1, free |-> nid.free + (IF free THEN 1 ELSE 0)]
    /\ doc' = doc
    /\ again' = Recorded(el, TAG_OPEN, r.ret)
    /\ UNCHANGED <<db, call, al, mg, sv>>
    /\ IF r.h.err # "none"
       THEN pc' = "raised" /\ stack' = stack
       ELSE /\ pc' = "walk"
            /\ stack' = IF Descends(r.ret) THEN Append(Under(el, r, free), Frame(el, r.forced))
                        ELSE Under(el, r, free)

ExploreEl(el, free) == Explored(el, Dispatch(h, el, TAG_OPEN), free)

\* _explore_element(el) up to the first child: the OPEN call and the descent
ExploreOpen(el0, free) == ExploreEl(Numbered(el0), free)

\* _explore_element(tree.xpath('//HansardBody')[0]) begins
Start ==
    /\ pc = "start"
    /\ ExploreOpen(BaseEl("HansardBody"), FALSE)

\* the walk is inside an element that may hold one more child
CanOpen(max) ==
    /\ pc = "walk"
    /\ stack # <<>>
    /\ Top.forced = <<>>
    /\ nid.free < max

\* the next child is the one handle_ParaText has already looked at
OpenForced ==
    /\ pc = "walk"
    /\ stack # <<>>
    /\ Top.forced # <<>>
    /\ ExploreOpen(Head(Top.forced), FALSE)

\* _explore_element(el) after el_handler(el, TAG_CLOSE) returned or raised r
Returned(el, r) ==
    /\ h' = r.h
    /\ last' = [el |-> el, oc |-> TAG_CLOSE, pre |-> h]
    /\ log' = Append(log, LogEntry(el, TAG_CLOSE, r.ret))
    /\ IF r.h.err # "none"
       THEN pc' = "raised" /\ stack' = stack
       ELSE /\ stack' = SubSeq(stack, 1, Len(stack) - 1)
            /\ pc' = IF Len(stack) = 1 THEN "final" ELSE "walk"
    /\ again' = Recorded(el, TAG_CLOSE, r.ret)
    /\ UNCHANGED <<nid, doc, db, call, al, mg, sv>>

\* the element on top has no more children: el_handler(el, TAG_CLOSE)
Close ==
    /\ pc = "walk"
    /\ stack # <<>>
    /\ Top.forced = <<>>
    /\ Returned(Top.el, Dispatch(h, Top.el, TAG_CLOSE))

Finished(h1) ==
    /\ h' = h1
    /\ last' = [el |-> BaseEl(""), oc |-> 0, pre |-> h]
    /\ IF h1.err # "none" THEN pc' = "raised" /\ doc' = doc
       ELSE pc' = "done" /\ doc' = h1.statements
    /\ UNCHANGED <<stack, nid, log, db, call, al, mg, sv, again>>

\* document.statements = handler.get_final_statements(); return document
Finish ==
    /\ pc = "final"
    /\ Finished(get_final_statements(h))

\* a handler that is the one an earlier parse left behind
HandlerKept(prev) == [prev EXCEPT !.err = "none"]

\* handler = ParseHandler(document), in a process where prev is the handler
\* of an earlier parse of the same document
HandlerOfParse(prev) == NewHandler(prev.document_language)

\* the calls of a walk made again, on the elements as the first walk met
\* them: the tree is built again from the same string, and the edits a
\* handler makes to a later element are made again before it is reached
RECURSIVE Replayed(_, _)
ReplayedCall(events, r) ==
    IF r.ret # Head(events).ret THEN Raise(r.h, "diverged")
    ELSE Replayed(Tail(events), r.h)

Replayed(events, hh) ==
    IF events = <<>> \/ hh.err # "none" THEN hh
    ELSE ReplayedCall(events, Dispatch(hh, Head(events).el, Head(events).oc))

\* the walk came back to the root: the last call closed HansardBody
WalkedThrough(events) ==
    events # <<>> /\ Last(events).el.nid = 1 /\ Last(events).oc = TAG_CLOSE

\* document.statements = handler.get_final_statements(), if the walk got there
Finalized(hh, through) ==
    IF through /\ hh.err = "none" THEN get_final_statements(hh) ELSE hh

\* parse_tree(etree.fromstring(s)) once more
ParsedAgain(events, prev) ==
    Finalized(Replayed(events, HandlerOfParse(prev)), WalkedThrough(events))

\* what the caller of the second parse gets
Outcome(hh) ==
    [again EXCEPT !.pc = "returned", !.err = hh.err,
                  !.statements = IF hh.err = "none" THEN hh.statements ELSE <<>>]

NotAgain == [pc |-> "off", events |-> <<>>, err |-> "none", statements |-> <<>>]

\* parse_string(s) is called a second time with the same string
Reparse ==
    /\ pc \in {"done", "raised"}
    /\ again.pc = "idle"
    /\ again' = Outcome(ParsedAgain(again.events, h))
    /\ UNCHANGED <<h, stack, nid, pc, doc, log, last, db, call, al, mg, sv>>

WalkInit ==
    /\ h = NewHandler("en")
    /\ stack = <<>>
    /\ nid = [n |-> 0, free |-> 0]
    /\ pc = "start"
    /\ doc = <<>>
    /\ log = <<>>
    /\ last = [el |-> BaseEl(""), oc |-> 0, pre |-> NewHandler("en")]

\* ------------------------------------------------------ input documents

MrSmith == <<"Mr.", WS, "Smith">>
Smith == <<"Smith">>
MrJones == <<"Mr.", WS, "Jones">>
AnHonMember == <<"An", WS, "hon.", WS, "member">>
DesVoix == <<"Des", WS, "voix">>

Para(text) == [BaseEl("ParaText") EXCEPT !.text = text, !.id = "auto"]

\* <ParaText><B>label:</B> hello</ParaText> and the like
LeadPara(tag, DbId, text, tail) ==
    [BaseEl("ParaText") EXCEPT !.id = "auto",
        !.lead = [present |-> TRUE, tag |-> tag, text |-> text, tail |-> tail,
                  DbId |-> DbId, nxt |-> <<>>]]

\* <PersonSpeaking><Affiliation DbId=.. Type=..>text</Affiliation>tail</PersonSpeaking>
Speaking(DbId, text, Type, tail) ==
    [BaseEl("PersonSpeaking") EXCEPT
        !.aff = [present |-> TRUE, text |-> text, DbId |-> DbId, Type |-> Type, tail |-> tail]]

StructParas == {Para(<<"hello">>), LeadPara("B", None, DesVoix \o <<":">>, <<WS, "hello">>)}

StructSpeakers == {Speaking("7", MrSmith, None, <<":">>)}

StructInterventions == {[BaseEl("Intervention") EXCEPT !.id = "auto"]}

StructQualifiers ==
    {[BaseEl("SubjectOfBusinessQualifier") EXCEPT !.inner = <<"Bill", WS, WS, "C-2">>]}

StructLines == {[BaseEl("Line") EXCEPT !.text = <<WS>>]}

\* an excluded tag, a passthrough tag, an ignored tag and an unknown tag
StructDefaults == {BaseEl("CatchLine"), [BaseEl("I") EXCEPT !.text = <<"there">>],
                   BaseEl("Content"), BaseEl("Foo")}

\* speaker labels: (DbId, text of the Affiliation)
SpeakerSignals ==
    {Speaking("7", MrSmith, None, <<":">>),
     Speaking(None, Smith, None, <<":">>),
     Speaking("8", MrSmith, None, <<":">>),
     Speaking("", Smith, None, <<":">>),
     Speaking(None, AnHonMember, None, <<":">>),
     Speaking(None, DesVoix, None, <<":">>)}

SpeakerParas ==
    {Para(<<"hello">>),
     LeadPara("B", None, DesVoix \o <<":">>, <<WS, "hello">>),
     LeadPara("B", None, AnHonMember, <<":", WS, "hello">>),
     LeadPara("B", None, MrSmith \o <<":">>, <<WS, "hello">>),
     LeadPara("Affiliation", "7", Smith \o <<":">>, <<WS, "hello">>)}

\* <Timestamp Hr=".." Mn=".."/>, with and without the hour
Timestamps ==
    {[BaseEl("Timestamp") EXCEPT !.Hr = "10", !.Mn = "05"],
     [BaseEl("Timestamp") EXCEPT !.Hr = "14"],
     BaseEl("Timestamp")}

TimedParas == {Para(<<"hello">>), Para(<<"(", "hello", ")">>)}

TimedSpeakers == {Speaking("7", MrSmith, None, <<":">>), Speaking("8", MrJones, None, <<":">>)}

\* paragraphs of speech, stage directions and motions
ParaKinds ==
    {Para(<<"hello">>),
     Para(<<WS, "(", "hello", ")">>),
     Para(<<"[", "hello">>),
     Para(<<"moved", WS, "hello">>),
     Para(<<"demande", WS, "hello">>)}

\* <ProceduralText>, as a paragraph and as a heading of the table of contents
ProceduralKinds ==
    {[BaseEl("ProceduralText") EXCEPT !.text = <<"hello">>, !.id = "auto"],
     [BaseEl("ProceduralText") EXCEPT !.text = <<"hello">>, !.TocType = "TPC"]}

MrJonesCPC == <<"Mr.", WS, "Jones", WS, "(", "CPC", ")">>

\* speakers with and without an id, an affiliation type and a context
PeopleSpeakers ==
    {Speaking("7", MrSmith, "27", <<":">>),
     Speaking("8", MrJonesCPC, "28", <<":">>),
     Speaking("7", MrSmith, "5", <<":">>),
     Speaking(None, MrSmith, None, <<":">>)}

\* the blocks that set one-time attributes of their own
PeopleBlocks ==
    {[BaseEl("Intervention") EXCEPT !.id = "auto", !.Type = "Debate"],
     BaseEl("QuestionContent")}

\* the blocks that hold an agenda item, and the tags that name one
HeadingBlocks ==
    {BaseEl("OrderOfBusiness"), BaseEl("SubjectOfBusiness"),
     [BaseEl("WrittenQuestionResponse") EXCEPT !.inner = <<"Question", WS, "No.", WS, "5", "--">>],
     [BaseEl("WrittenQuestionResponse") EXCEPT !.inner = <<"Q-5">>],
     [BaseEl("Intervention") EXCEPT !.id = "auto"]}

HeadingTitles ==
    {[BaseEl("OrderOfBusinessTitle") EXCEPT !.inner = <<"ROUTINE">>],
     [BaseEl("SubjectOfBusinessTitle") EXCEPT !.inner = <<"Petitions">>],
     [BaseEl("SubjectOfBusinessQualifier") EXCEPT !.inner = <<"Bill", WS, WS, "C-2">>]}

\* <Affiliation> </Affiliation> outside any paragraph: white space only
BlankAffiliations == {[BaseEl("Affiliation") EXCEPT !.text = <<WS>>]}

\* the blocks whose close closes the statement
ClosingBlocks ==
    {[BaseEl("Intervention") EXCEPT !.id = "auto"], BaseEl("QuestionContent"),
     BaseEl("ResponseContent")}

\* ---------------------------------------------------------------- actions

Open_ParaText ==
    /\ CanOpen(MaxStruct)
    /\ \E el0 \in StructParas : ExploreOpen(el0, TRUE)

Open_PersonSpeaking ==
    /\ CanOpen(MaxStruct)
    /\ \E el0 \in StructSpeakers : ExploreOpen(el0, TRUE)

Open_Intervention ==
    /\ CanOpen(MaxStruct)
    /\ \E el0 \in StructInterventions : ExploreOpen(el0, TRUE)

Open_SubjectOfBusiness ==
    /\ CanOpen(MaxStruct)
    /\ ExploreOpen(BaseEl("SubjectOfBusiness"), TRUE)

Open_SubjectOfBusinessQualifier ==
    /\ CanOpen(MaxStruct)
    /\ \E el0 \in StructQualifiers : ExploreOpen(el0, TRUE)

Open_Line ==
    /\ CanOpen(MaxStruct)
    /\ \E el0 \in StructLines : ExploreOpen(el0, TRUE)

Open_default ==
    /\ CanOpen(MaxStruct)
    /\ \E el0 \in StructDefaults : ExploreOpen(el0, TRUE)

Timed_Timestamp ==
    /\ CanOpen(MaxTimed)
    /\ \E el0 \in Timestamps : ExploreOpen(el0, TRUE)

Timed_ParaText ==
    /\ CanOpen(MaxTimed)
    /\ \E el0 \in TimedParas : ExploreOpen(el0, TRUE)

Timed_PersonSpeaking ==
    /\ CanOpen(MaxTimed)
    /\ Top.el.tag = "HansardBody"
    /\ \E el0 \in TimedSpeakers : ExploreOpen(el0, TRUE)

Heading_Block ==
    /\ CanOpen(MaxHeadings)
    /\ Top.el.tag # "Intervention"
    /\ \E el0 \in HeadingBlocks : ExploreOpen(el0, TRUE)

Heading_Title ==
    /\ CanOpen(MaxHeadings)
    /\ Top.el.tag # "Intervention"
    /\ \E el0 \in HeadingTitles : ExploreOpen(el0, TRUE)

Heading_ParaText ==
    /\ CanOpen(MaxHeadings)
    /\ ExploreOpen(Para(<<"hello">>), TRUE)

Paras_ParaText ==
    /\ CanOpen(MaxParas)
    /\ Top.el.tag \in {"HansardBody", "Intervention"}
    /\ \E el0 \in ParaKinds : ExploreOpen(el0, TRUE)

Paras_ProceduralText ==
    /\ CanOpen(MaxParas)
    /\ Top.el.tag \in {"HansardBody", "Intervention"}
    /\ \E el0 \in ProceduralKinds : ExploreOpen(el0, TRUE)

Paras_PersonSpeaking ==
    /\ CanOpen(MaxParas)
    /\ Top.el.tag \in {"HansardBody", "Intervention"}
    /\ \E el0 \in StructSpeakers : ExploreOpen(el0, TRUE)

Paras_Intervention ==
    /\ CanOpen(MaxParas)
    /\ Top.el.tag = "HansardBody"
    /\ \E el0 \in StructInterventions : ExploreOpen(el0, TRUE)

People_PersonSpeaking ==
    /\ CanOpen(MaxPeople)
    /\ \E el0 \in PeopleSpeakers : ExploreOpen(el0, TRUE)

People_ParaText ==
    /\ CanOpen(MaxPeople)
    /\ ExploreOpen(Para(<<"hello">>), TRUE)

People_Block ==
    /\ CanOpen(MaxPeople)
    /\ Top.el.tag = "HansardBody"
    /\ \E el0 \in PeopleBlocks : ExploreOpen(el0, TRUE)

Closing_Affiliation ==
    /\ CanOpen(MaxTimed)
    /\ Top.el.tag \in {"HansardBody", "Intervention", "QuestionContent", "ResponseContent"}
    /\ \E el0 \in BlankAffiliations : ExploreOpen(el0, TRUE)

Closing_Block ==
    /\ CanOpen(MaxTimed)
    /\ Top.el.tag \in {"HansardBody", "Intervention", "QuestionContent", "ResponseContent"}
    /\ \E el0 \in ClosingBlocks : ExploreOpen(el0, TRUE)

Speaker_PersonSpeaking ==
    /\ CanOpen(MaxNodes)
    /\ Top.el.tag \in {"HansardBody", "Intervention"}
    /\ \E el0 \in SpeakerSignals : ExploreOpen(el0, TRUE)

Speaker_ParaText ==
    /\ CanOpen(MaxNodes)
    /\ Top.el.tag \in {"HansardBody", "Intervention"}
    /\ \E el0 \in SpeakerParas : ExploreOpen(el0, TRUE)

Speaker_Intervention ==
    /\ CanOpen(MaxNodes)
    /\ Top.el.tag = "HansardBody"
    /\ \E el0 \in StructInterventions : ExploreOpen(el0, TRUE)

\* ------------------------------------------------ hansards.models.Statement

\* parsetools.r_mister.sub('', who): ^(Mr|Mrs|Ms|Miss|Hon|Right Hon|M|Mme)\.?\s+
r_mister_sub(who) ==
    IF Len(who) >= 2 /\ who[1] \in HonorificAtoms /\ who[2] = WS
    THEN LStrip(Tail(who)) ELSE who

\* Statement.name_info['display_name'] of a statement without a member and
\* without a who_context
name_info(st) == [display_name |-> r_mister_sub(st.who)]

\* re.sub('[^a-zA-Z]', '-', atom.lower())
SlugAtom(a) ==
    IF AtomLetters[a] = "" THEN <<"-">>
    ELSE IF a \in {"Mr.", "Hon.", "hon."} THEN <<AtomLetters[a], "-">>
    ELSE <<AtomLetters[a]>>

RECURSIVE SlugAtoms(_)
SlugAtoms(s) == IF s = <<>> THEN <<>> ELSE SlugAtom(Head(s)) \o SlugAtoms(Tail(s))

\* re.sub(r'--+', '-', s)
RECURSIVE CollapseDashes(_)
CollapseDashes(s) ==
    IF Len(s) < 2 THEN s
    ELSE IF s[1] = "-" /\ s[2] = "-" THEN CollapseDashes(Tail(s))
         ELSE <<s[1]>> \o CollapseDashes(Tail(s))

\* parsetools.slugify(s)
slugify(s) == CollapseDashes(SlugAtoms(Strip(s)))

\* the slug before its counter: slugify(display_name)[:50] or 'procedural'
SlugBase(st) ==
    IF slugify(name_info(st).display_name) = <<>> THEN <<"procedural">>
    ELSE slugify(name_info(st).display_name)

\* a set_slugs that never counts
SlugsWithoutCounter(statements) ==
    [i \in 1..Len(statements) |->
        [statements[i] EXCEPT !.slug = SlugBase(statements[i]) \o <<"-", "1">>]]

\* Statement.set_slugs(statements): slug + '-%s' % counter[slug]
set_slugs(statements) ==
    [i \in 1..Len(statements) |->
        [statements[i] EXCEPT !.slug =
            SlugBase(statements[i])
              \o <<"-", ToString(Cardinality({j \in 1..i :
                                     SlugBase(statements[j]) = SlugBase(statements[i])}))>>]]

\* ------------------------------------------------------ _align_sequences

\* the names of build_speaker_dict(states), in the order the dict holds them
RECURSIVE SpeakerNames(_, _)
SpeakerNames(states, seen) ==
    IF states = <<>> THEN <<>>
    ELSE IF name_info(Head(states)).display_name \in seen
         THEN SpeakerNames(Tail(states), seen)
         ELSE <<name_info(Head(states)).display_name>>
                \o SpeakerNames(Tail(states),
                                seen \cup {name_info(Head(states)).display_name})

\* build_speaker_dict(states).get(speaker, [])
build_speaker_dict(states, speaker) ==
    SelectSeq(states, LAMBDA st : name_info(st).display_name = speaker)

\* re.split(r'\s+', text) of a text held as its words
get_comparison_sequence(text) == IF text = <<>> THEN <<"">> ELSE text

\* newtext in oldtext
Contains(oldtext, newtext) ==
    \E i \in 0..(Len(oldtext) - Len(newtext)) : SubSeq(oldtext, i + 1, i + Len(newtext)) = newtext

\* the blocks of length k that a and b share, as <<start in a, start in b>>
Blocks(a, b, k) ==
    {ij \in (1..(Len(a) - k + 1)) \X (1..(Len(b) - k + 1)) :
        SubSeq(a, ij[1], ij[1] + k - 1) = SubSeq(b, ij[2], ij[2] + k - 1)}

\* SequenceMatcher.find_longest_match: the length of the longest block
Longest(a, b) ==
    IF \E k \in 1..Len(a) : Blocks(a, b, k) # {}
    THEN CHOOSE k \in 1..Len(a) :
            Blocks(a, b, k) # {} /\ \A m \in (k + 1)..Len(a) : Blocks(a, b, m) = {}
    ELSE 0

\* ... and where it starts: earliest in a, then earliest in b
FirstBlock(S) ==
    CHOOSE ij \in S : \A xy \in S : ij[1] < xy[1] \/ (ij[1] = xy[1] /\ ij[2] <= xy[2])

\* SequenceMatcher.get_matching_blocks: the number of matched elements
RECURSIVE Matched(_, _)
MatchedAround(a, b, k, ij) ==
    k + Matched(SubSeq(a, 1, ij[1] - 1), SubSeq(b, 1, ij[2] - 1))
      + Matched(SubSeq(a, ij[1] + k, Len(a)), SubSeq(b, ij[2] + k, Len(b)))

MatchedBy(a, b, k) == IF k = 0 THEN 0 ELSE MatchedAround(a, b, k, FirstBlock(Blocks(a, b, k)))

Matched(a, b) == IF a = <<>> \/ b = <<>> THEN 0 ELSE MatchedBy(a, b, Longest(a, b))

\* 12000 * SequenceMatcher(None, a, b).ratio(), ratio being 2.0 * matches / length
Ratio(a, b) == (24000 * Matched(a, b)) \div (Len(a) + Len(b))

\* a similarity that gives nothing for equal times
SimilarityWithoutTime(old, new, chosen) ==
    (IF Contains(old.text, new.text) THEN 12000
     ELSE Ratio(get_comparison_sequence(old.text), get_comparison_sequence(new.text)))
      - (IF new \in chosen THEN 120 ELSE 0)

\* 12000 * 1.8 * calculate_similarity(old, new): the order of the scores is
\* the order of these integers (texts of at most three words)
calculate_similarity(old, new, chosen) ==
    (IF old.time = new.time THEN 9600 ELSE 0)
      - (IF new \in chosen THEN 120 ELSE 0)
      + (IF Contains(old.text, new.text) THEN 12000
         ELSE Ratio(get_comparison_sequence(old.text), get_comparison_sequence(new.text)))

\* max(scores, key=lambda s: s[1])[0]: the first candidate with the best score
BestCandidate(old, candidates, chosen) ==
    candidates[CHOOSE i \in 1..Len(candidates) :
        /\ \A j \in 1..Len(candidates) :
              calculate_similarity(old, candidates[j], chosen)
                <= calculate_similarity(old, candidates[i], chosen)
        /\ \A j \in 1..(i - 1) :
              calculate_similarity(old, candidates[j], chosen)
                < calculate_similarity(old, candidates[i], chosen)]

Mapping(old, new) == [sequence |-> old.sequence, slug |-> new.slug]

\* one call of calculate_similarity and the value it returned
Scored(old, new, chosen) ==
    [old |-> old.sequence, new |-> new.slug, score |-> calculate_similarity(old, new, chosen)]

\* the calls made for the pairs of olds and news
Scores(olds, news, chosen) ==
    {Scored(olds[i], news[j], chosen) : i \in 1..Len(olds), j \in 1..Len(news)}

\* the calls made in "for old, new in zip(olds, news)"
ZipScores(olds, news, chosen) == {Scored(olds[i], news[i], chosen) : i \in 1..Len(olds)}

\* "The easy version: assume we've got the same statements"
EasyMatch(olds, news) == [i \in 1..Len(olds) |-> Mapping(olds[i], news[i])]

\* "Try and pair the most similar statement": the loop over olds, with the
\* mappings and the chosen set so far; max() of no candidates is a ValueError
RECURSIVE PairMostSimilar(_, _, _)
Paired(olds, candidates, a, choice) ==
    PairMostSimilar(Tail(olds), candidates,
                    [a EXCEPT !.chosen = @ \cup {choice},
                              !.mappings = Append(@, Mapping(Head(olds), choice)),
                              !.scores = @ \cup Scores(<<Head(olds)>>, candidates, a.chosen)])

PairMostSimilar(olds, candidates, a) ==
    IF olds = <<>> THEN a
    ELSE IF candidates = <<>> THEN [a EXCEPT !.err = "ValueError"]
    ELSE Paired(olds, candidates, a, BestCandidate(Head(olds), candidates, a.chosen))

\* a turn that pairs by similarity even when the counts agree
AlignSpeakerBySimilarity(speaker, olds, news, new_statements, a) ==
    PairMostSimilar(olds, IF news # <<>> THEN news ELSE new_statements, a)

\* one turn of "for speaker, olds in list(old_speakers.items())"
AlignSpeaker(speaker, olds, news, new_statements, a) ==
    IF speaker # <<>> /\ Len(olds) = Len(news)
    THEN [a EXCEPT !.mappings = @ \o EasyMatch(olds, news),
                   !.scores = @ \cup ZipScores(olds, news, a.chosen)]
    ELSE PairMostSimilar(olds, IF news # <<>> THEN news ELSE new_statements, a)

RECURSIVE AlignSpeakers(_, _, _, _)
AlignSpeakers(speakers, new_statements, old_statements, a) ==
    IF speakers = <<>> \/ a.err # "none" THEN a
    ELSE AlignSpeakers(Tail(speakers), new_statements, old_statements,
                       AlignSpeaker(Head(speakers),
                                    build_speaker_dict(old_statements, Head(speakers)),
                                    build_speaker_dict(new_statements, Head(speakers)),
                                    new_statements, a))

\* the mappings returned, or the exception raised
_align_sequences(new_statements, old_statements) ==
    AlignSpeakers(SpeakerNames(old_statements, {}), new_statements, old_statements,
                  [err |-> "none", chosen |-> {}, mappings |-> <<>>, scores |-> {}])

\* ------------------------------------------------------- import_document

\* the rows of one Document: its statement_set, its OldSequenceMapping rows,
\* its downloaded flag, and whether its cached XML files exist
NewDocument == [statements |-> <<>>, mappings |-> <<>>, downloaded |-> FALSE, files |-> FALSE]

\* what a call gives back: the rows as the call leaves them, and how it ended
Ret(d, outcome) == [db |-> d, outcome |-> outcome]

\* the Statement objects of "for pstate in pdoc_en.statements"
Built(pstatements) ==
    [i \in 1..Len(pstatements) |->
        [sequence |-> i - 1, slug |-> <<>>, who |-> pstatements[i].who,
         time |-> pstatements[i].time, text |-> pstatements[i].text]]

Sequences(mappings) == {mappings[i].sequence : i \in 1..Len(mappings)}

\* "for s in statements: s.save()" and document.save()
Saved(d, statements) == Ret([d EXCEPT !.statements = statements], "Document")

\* OldSequenceMapping.objects.create for each mapping; (document, sequence)
\* is unique
Mapped(d, statements, a) ==
    IF a.err # "none" THEN Ret(d, a.err)
    ELSE IF Cardinality(Sequences(a.mappings)) # Len(a.mappings) THEN Ret(d, "IntegrityError")
    ELSE Saved([d EXCEPT !.mappings = @ \o a.mappings], statements)

Aligned(d, old_statements, statements) ==
    IF old_statements # <<>>
    THEN Mapped(d, statements, _align_sequences(statements, old_statements))
    ELSE Saved(d, statements)

\* import_document from alpheus_parse_string on; a parsed statement without
\* a timestamp fails pstate.meta['timestamp']
Parsed(d, old_statements, p) ==
    IF p.err # "none" THEN Ret(d, p.err)
    ELSE IF \E i \in 1..Len(p.statements) : p.statements[i].time = None THEN Ret(d, "KeyError")
    ELSE Aligned(d, old_statements, set_slugs(Built(p.statements)))

\* import_document from "if not document.downloaded" on
Deleted(d, old_statements, p) ==
    IF ~d.downloaded THEN Ret(d, "None") ELSE Parsed(d, old_statements, p)

\* a body that deletes the statements before it looks at its arguments
DeletesBeforeRefusing(d, interactive, reimport_preserving_sequence, answer, p) ==
    IF d.statements # <<>> /\ (reimport_preserving_sequence => d.mappings # <<>>)
          /\ (~reimport_preserving_sequence => ~interactive \/ answer # "y")
    THEN Ret([d EXCEPT !.statements = <<>>], "None")
    ELSE Deleted([d EXCEPT !.statements = <<>>],
                 IF reimport_preserving_sequence THEN d.statements ELSE <<>>, p)

\* the body of import_document
ImportBody(d, interactive, reimport_preserving_sequence, answer, p) ==
    IF d.statements # <<>>
    THEN IF reimport_preserving_sequence
         THEN IF d.mappings # <<>> THEN Ret(d, "None")
              ELSE Deleted([d EXCEPT !.statements = <<>>], d.statements, p)
         ELSE IF ~interactive THEN Ret(d, "None")
              ELSE IF answer # "y" THEN Ret(d, "None")
              ELSE Deleted([d EXCEPT !.statements = <<>>], <<>>, p)
    ELSE Deleted(d, <<>>, p)

\* @transaction.atomic: a return commits, an exception rolls back
Atomic(d, r) == IF r.outcome \in {"None", "Document"} THEN r ELSE Ret(d, r.outcome)

import_document(d, interactive, reimport_preserving_sequence, answer, p) ==
    Atomic(d, ImportBody(d, interactive, reimport_preserving_sequence, answer, p))

\* ------------------------------------------- inputs of the import

PStatement(who, time, text) == [who |-> who, time |-> time, text |-> text]

ParsedKinds ==
    {PStatement(MrSmith, "10:00", <<"hello">>),
     PStatement(DesVoix, "10:05", <<"hello", "there">>),
     PStatement(MrSmith, None, <<"hello">>)}

AlignKinds ==
    {PStatement(MrSmith, "10:00", <<"hello">>),
     PStatement(DesVoix, "10:00", <<"hello", "there">>),
     PStatement(DesVoix, "10:05", <<"there">>),
     PStatement(<<>>, "10:05", <<"there">>),
     PStatement(<<>>, "10:00", <<"hello">>)}

Lists(S, n) == UNION {[1..k -> S] : k \in 0..n}

\* what alpheus_parse_string can give for the cached XML
ParseOutcomes ==
    {[err |-> "AlpheusError", statements |-> <<>>]}
      \cup {[err |-> "none", statements |-> l] : l \in Lists(ParsedKinds, MaxParsed)}

\* transcripts with namesakes, with two forms of one name and with
\* statements without a name
SlugOutcomes ==
    {[err |-> "none", statements |-> l] :
        l \in Lists(AlignKinds \cup {PStatement(Smith, "10:00", <<"hello">>)}, MaxSlugs)}

\* what alpheus_parse_string gives for the transcripts imported again
RefusedOutcomes ==
    {[err |-> "none", statements |-> l] :
        l \in Lists({PStatement(MrSmith, "10:00", <<"hello">>),
                     PStatement(DesVoix, "10:05", <<"hello", "there">>)}, MaxRefused)}

\* ------------------------------------------- actions on the document

Called(fn, reimport, p, r) ==
    /\ db' = r.db
    /\ call' = [fn |-> fn, reimport |-> reimport, p |-> p, outcome |-> r.outcome, before |-> db]
    /\ UNCHANGED <<h, stack, nid, pc, doc, log, last, al, mg, sv, again>>

NoParse == [err |-> "none", statements |-> <<>>]

\* what input() can give; it is read only by an interactive import that
\* does not preserve the sequence
Answers(interactive, reimport) == IF interactive /\ ~reimport THEN {"y", "n"} ELSE {"n"}

\* import_document(document, interactive, reimport_preserving_sequence)
Import ==
    /\ \E interactive \in BOOLEAN, reimport \in BOOLEAN, p \in ParseOutcomes :
         \E answer \in Answers(interactive, reimport) :
            Called("import_document", reimport, p,
                   import_document(db, interactive, reimport, answer, p))

\* the first import_document(document) of a downloaded document
FirstImport ==
    /\ db.statements = <<>>
    /\ db.downloaded
    /\ \E p \in SlugOutcomes :
           Called("import_document", FALSE, p, import_document(db, TRUE, FALSE, "n", p))

\* import_document(document, interactive=False)
ImportUnattended ==
    /\ \E p \in RefusedOutcomes :
           Called("import_unattended", FALSE, p, import_document(db, FALSE, FALSE, "n", p))

\* import_document(document, reimport_preserving_sequence=...) at a terminal
ImportAttended ==
    /\ \E reimport \in BOOLEAN, p \in RefusedOutcomes :
         \E answer \in Answers(TRUE, reimport) :
            Called("import_document", reimport, p,
                   import_document(db, TRUE, reimport, answer, p))

\* Document.delete_downloaded()
delete_downloaded ==
    /\ Called("delete_downloaded", FALSE, NoParse,
              Ret([db EXCEPT !.downloaded = FALSE, !.files = FALSE], "None"))

\* Document.save_xml(xml_en, xml_fr, overwrite)
save_xml ==
    /\ \E overwrite \in BOOLEAN :
         Called("save_xml", FALSE, NoParse,
                IF ~overwrite /\ db.files THEN Ret(db, "Exception")
                ELSE Ret([db EXCEPT !.downloaded = TRUE, !.files = TRUE], "None"))

ImportInit ==
    /\ db = NewDocument
    /\ call = [fn |-> "", reimport |-> FALSE, p |-> NoParse, outcome |-> "None",
               before |-> NewDocument]

\* ------------------------------------------- one call of _align_sequences

AlignIdle ==
    [pc |-> "idle", new |-> <<>>, old |-> <<>>, err |-> "none", mappings |-> <<>>,
     scores |-> {}]

AlignInit ==
    al \in {[pc |-> "called", new |-> set_slugs(Built(n)), old |-> set_slugs(Built(o)),
             err |-> "none", mappings |-> <<>>, scores |-> {}] :
               n \in Lists(AlignKinds, MaxNew), o \in Lists(AlignKinds, MaxOld)}

AlignDone(a) ==
    /\ al' = [al EXCEPT !.pc = IF a.err = "none" THEN "returned" ELSE "raised",
                        !.err = a.err, !.mappings = a.mappings, !.scores = a.scores]
    /\ UNCHANGED <<h, stack, nid, pc, doc, log, last, db, call, mg, sv, again>>

\* _align_sequences(new_statements, old_statements) runs
Align ==
    /\ al.pc = "called"
    /\ AlignDone(_align_sequences(al.new, al.old))

\* ------------------------------------------ the bilingual merge and save()

\* A statement's HTML content is a sequence of items: a paragraph
\* <p ... data-HoCid="pid">...</p> with its class, the language it carries
\* and the state of the link it holds, text outside any paragraph, or a
\* newline.
Paragraph(pid, lang, cls, link) ==
    [k |-> "p", pid |-> pid, lang |-> lang, cls |-> cls, link |-> link]

Outside(lang) == [k |-> "text", pid |-> 0, lang |-> lang, cls |-> "", link |-> "none"]

Newline == [k |-> "nl", pid |-> 0, lang |-> "", cls |-> "", link |-> "none"]

\* what alpheus hands over for one statement
ParsedStatement(id, content) == [id |-> id, content |-> content]

\* _process_related_link: an <a class="related_link ..."> becomes a plain
\* <a href=...> link
_process_related_link(item) ==
    IF item.link = "related_link" THEN [item EXCEPT !.link = "href"] ELSE item

\* _process_related_links(content, statement)
_process_related_links(content) ==
    [i \in 1..Len(content) |-> _process_related_link(content[i])]

\* _r_paragraphs.findall(content)
RECURSIVE Paragraphs(_)
Paragraphs(content) ==
    IF content = <<>> THEN <<>>
    ELSE IF Head(content).k = "p" THEN <<Head(content)>> \o Paragraphs(Tail(content))
         ELSE Paragraphs(Tail(content))

\* the ids of _get_paragraphs_and_ids(content)
_get_paragraph_ids(content) == [i \in 1..Len(Paragraphs(content)) |-> Paragraphs(content)[i].pid]

\* every French paragraph, in document order
RECURSIVE AllParagraphs(_)
AllParagraphs(sts) ==
    IF sts = <<>> THEN <<>>
    ELSE Paragraphs(Head(sts).content) \o AllParagraphs(Tail(sts))

\* fr_paragraphs: the last French paragraph seen under each non-zero id
RECURSIVE PutParagraphs(_, _)
PutParagraphs(ps, d) ==
    IF ps = <<>> THEN d
    ELSE PutParagraphs(Tail(ps),
                       IF Head(ps).pid # 0 THEN Put(d, Head(ps).pid, Head(ps)) ELSE d)

fr_paragraphs(fr) == PutParagraphs(AllParagraphs(fr), EmptyDict)

\* missing_id_count: the French paragraphs whose id is 0
missing_id_count(fr) ==
    Cardinality({i \in 1..Len(AllParagraphs(fr)) : AllParagraphs(fr)[i].pid = 0})

\* fr_statements: the last French statement under each non-empty source id
RECURSIVE PutStatements(_, _)
PutStatements(sts, d) ==
    IF sts = <<>> THEN d
    ELSE PutStatements(Tail(sts),
                       IF Head(sts).id # "" THEN Put(d, Head(sts).id, Head(sts)) ELSE d)

fr_statements(fr) == PutStatements(fr, EmptyDict)

\* a substitution that leaves every paragraph in English
KeepsEnglishParagraph(item, fr) == item

\* _substitute_french_content(match): the French paragraph with the same
\* id; the paragraph itself when its id is 0 or not known in French
_substitute_french_content(item, fr) ==
    IF item.k = "p" /\ item.pid # 0 /\ Has(fr_paragraphs(fr), item.pid)
    THEN fr_paragraphs(fr)[item.pid]
    ELSE item

\* _r_paragraphs.sub(_substitute_french_content, content)
SubstituteParagraphs(content, fr) ==
    [i \in 1..Len(content) |-> _substitute_french_content(content[i], fr)]

\* all(pids_en)
AllIds(pids) == \A i \in 1..Len(pids) : pids[i] # 0

\* the Statement built from one English parsed statement
BuiltStatement(pstate, sequence) ==
    [sequence |-> sequence,
     source_id |-> pstate.id,
     content_en |-> _process_related_links(pstate.content),
     content_fr |-> <<>>]

BuiltStatements(en) == [i \in 1..Len(en) |-> BuiltStatement(en[i], i - 1)]

MatchByStatement(st, fr) ==
    /\ Has(fr_statements(fr), st.source_id)
    /\ _get_paragraph_ids(st.content_en) = _get_paragraph_ids(fr_statements(fr)[st.source_id].content)

MatchByParagraph(st, fr) == ~MatchByStatement(st, fr) /\ AllIds(_get_paragraph_ids(st.content_en))

\* a merge that never takes a statement's French content whole
MergedByParagraphOnly(st, fr) ==
    IF AllIds(_get_paragraph_ids(st.content_en))
    THEN [st EXCEPT !.content_fr =
              _process_related_links(SubstituteParagraphs(st.content_en, fr))]
    ELSE st

\* one turn of the loop over the statements
MergedStatement(st, fr) ==
    IF MatchByStatement(st, fr)
    THEN [st EXCEPT !.content_fr =
              _process_related_links(fr_statements(fr)[st.source_id].content)]
    ELSE IF MatchByParagraph(st, fr)
    THEN [st EXCEPT !.content_fr =
              _process_related_links(SubstituteParagraphs(st.content_en, fr))]
    ELSE st

Unmatched(st, fr) == ~MatchByStatement(st, fr) /\ ~MatchByParagraph(st, fr)

\* missing_id_count > float(len(fr_paragraphs))
FrenchUnavailable(fr) == missing_id_count(fr) > Cardinality(DOMAIN fr_paragraphs(fr))

\* a loop in which a statement that is matched sets the flag again
FlagOfLast(st, fr, flag) == ~Unmatched(st, fr)

\* document.multilingual after one turn of the loop
FlagAfter(st, fr, flag) == IF Unmatched(st, fr) THEN FALSE ELSE flag

\* the loop over the statements; flags keeps the flag after each turn
RECURSIVE MergeLoop(_, _, _)
MergeLoop(sts, fr, acc) ==
    IF sts = <<>> THEN acc
    ELSE MergeLoop(Tail(sts), fr,
                   [statements |-> Append(acc.statements, MergedStatement(Head(sts), fr)),
                    multilingual |-> FlagAfter(Head(sts), fr, acc.multilingual),
                    flags |-> Append(acc.flags, FlagAfter(Head(sts), fr, acc.multilingual))])

\* the statements and the flag the merge leaves
Merged(en, fr) ==
    IF FrenchUnavailable(fr)
    THEN [statements |-> BuiltStatements(en), multilingual |-> FALSE, flags |-> <<>>]
    ELSE MergeLoop(BuiltStatements(en), fr,
                   [statements |-> <<>>, multilingual |-> TRUE, flags |-> <<>>])

\* content.replace('\n', '')
RECURSIVE WithoutNewlines(_)
WithoutNewlines(content) ==
    IF content = <<>> THEN <<>>
    ELSE IF Head(content).k = "nl" THEN WithoutNewlines(Tail(content))
         ELSE <<Head(content)>> \o WithoutNewlines(Tail(content))

\* content.replace('</p>', '</p>\n')
RECURSIVE NewlineAfterParagraphs(_)
NewlineAfterParagraphs(content) ==
    IF content = <<>> THEN <<>>
    ELSE IF Head(content).k = "p"
         THEN <<Head(content), Newline>> \o NewlineAfterParagraphs(Tail(content))
         ELSE <<Head(content)>> \o NewlineAfterParagraphs(Tail(content))

\* str.strip() of a content
RECURSIVE StripNewlines(_)
StripNewlines(content) ==
    IF content # <<>> /\ Head(content).k = "nl" THEN StripNewlines(Tail(content))
    ELSE IF content # <<>> /\ Last(content).k = "nl"
         THEN StripNewlines(SubSeq(content, 1, Len(content) - 1))
         ELSE content

\* what Statement.save() stores for a content
SavedContent(content) == StripNewlines(NewlineAfterParagraphs(WithoutNewlines(content)))

SavedStatement(st) ==
    [st EXCEPT !.content_en = SavedContent(st.content_en),
               !.content_fr = SavedContent(st.content_fr)]

\* the statements import_document stores
MergedStatements(en, fr) ==
    [i \in 1..Len(en) |-> SavedStatement(Merged(en, fr).statements[i])]

\* ----- inputs

EnglishKinds ==
    {ParsedStatement("a", <<Paragraph(1, "en", "", "related_link")>>),
     ParsedStatement("b", <<Outside("en"), Paragraph(2, "en", "procedural", "none"),
                   Paragraph(3, "en", "", "none")>>),
     ParsedStatement("p0", <<Paragraph(0, "en", "", "none")>>),
     ParsedStatement("", <<Outside("en"), Paragraph(4, "en", "", "none")>>)}

FrenchKinds ==
    {ParsedStatement("a", <<Paragraph(1, "fr", "", "related_link")>>),
     ParsedStatement("b", <<Outside("fr"), Paragraph(2, "fr", "procedural", "none"),
                   Paragraph(3, "fr", "", "none")>>),
     ParsedStatement("b", <<Paragraph(2, "fr", "procedural", "none"), Paragraph(0, "fr", "", "none")>>),
     ParsedStatement("p0", <<Paragraph(0, "fr", "", "none")>>),
     ParsedStatement("", <<Outside("fr"), Paragraph(4, "fr", "", "none")>>),
     ParsedStatement("c", <<Paragraph(1, "fr", "", "related_link"),
                   Paragraph(3, "fr", "", "none")>>)}

\* an Intervention, and so its id, occurs once in a transcript
DistinctIds(sts) == \A i, j \in 1..Len(sts) : sts[i].id = sts[j].id => i = j

MergeIdle == [pc |-> "idle", en |-> <<>>, fr |-> <<>>, statements |-> <<>>,
              multilingual |-> FALSE, flags |-> <<>>]

MergeInit ==
    \E en \in Lists(EnglishKinds, MaxMerge), fr \in Lists(FrenchKinds, MaxMerge) :
        /\ DistinctIds(en)
        /\ DistinctIds(fr)
        /\ mg = [MergeIdle EXCEPT !.pc = "called", !.en = en, !.fr = fr]

\* the merge and the saves of import_document run
Merge ==
    /\ mg.pc = "called"
    /\ mg' = [mg EXCEPT !.pc = "returned",
                        !.statements = MergedStatements(mg.en, mg.fr),
                        !.multilingual = Merged(mg.en, mg.fr).multilingual,
                        !.flags = Merged(mg.en, mg.fr).flags]
    /\ UNCHANGED <<h, stack, nid, pc, doc, log, last, db, call, al, sv, again>>

\* ----- Statement.save(): word counts and the procedural flag

\* self.wordcount <= 300
WordLimit == 300

\* a paragraph as save() sees it: its class, its data-originallang and the
\* number of words of its text
SavedPara(cls, lang, words) == [k |-> "p", cls |-> cls, lang |-> lang, words |-> words]

BlockquoteOpen == [k |-> "code", cls |-> "", lang |-> "", words |-> 0]

BlockquoteClose == [k |-> "/code", cls |-> "", lang |-> "", words |-> 0]

\* content.split('\n')
RECURSIVE SplitLines(_, _)
SplitLines(content, line) ==
    IF content = <<>> THEN <<line>>
    ELSE IF Head(content).k = "nl" THEN <<line>> \o SplitLines(Tail(content), <<>>)
         ELSE SplitLines(Tail(content), Append(line, Head(content)))

\* para.find('data-originallang="') != -1
HasOriginalLang(line) == \E i \in 1..Len(line) : line[i].k = "p" /\ line[i].lang # ""

\* 'class="procedural"' in p
HasProceduralClass(line) == \E i \in 1..Len(line) : line[i].k = "p" /\ line[i].cls = "procedural"

RECURSIVE WordsIn(_)
WordsIn(line) ==
    IF line = <<>> THEN 0
    ELSE (IF Head(line).k = "p" THEN Head(line).words ELSE 0) + WordsIn(Tail(line))

\* _generate_wordcounts: the words of the lines that carry a language
RECURSIVE CountedWords(_)
CountedWords(lines) ==
    IF lines = <<>> THEN 0
    ELSE (IF HasOriginalLang(Head(lines)) THEN WordsIn(Head(lines)) ELSE 0)
            + CountedWords(Tail(lines))

_generate_wordcounts(content) == CountedWords(SplitLines(content, <<>>))

\* the atoms r_notamember matches at the start of: the pattern has no
\* word boundary, so a name that begins with "A" or "An" matches as well
NotAMemberAtoms == {"The", "A", "An", "Some", "Des", "Le", "La", "Andrew"}

r_notamember_search(who) == who # <<>> /\ Head(who) \in NotAMemberAtoms

\* re.search(r'(Speaker|Chair|président)', who)
ChairAtoms == {"Speaker", "Chair", "président"}

r_chair_search(who) == \E i \in 1..Len(who) : who[i] \in ChairAtoms

\* any(p for p in content_en.split('\n') if 'class="procedural"' not in p)
AnyOtherLine(content) ==
    \E i \in 1..Len(SplitLines(content, <<>>)) :
        /\ SplitLines(content, <<>>)[i] # <<>>
        /\ ~HasProceduralClass(SplitLines(content, <<>>)[i])

\* the condition under which save() sets procedural
LooksProcedural(who, content, wordcount) ==
    /\ wordcount <= WordLimit
    /\ \/ r_notamember_search(who) /\ r_chair_search(who)
       \/ who = <<>>
       \/ ~AnyOtherLine(content)

\* ----- inputs of save()

TheSpeaker == <<"The", WS, "Speaker">>

AndrewScheer == <<"Andrew", WS, "Scheer", WS, "(", "Chair", ")">>

SavedWho == {<<>>, MrSmith, TheSpeaker, AnHonMember, AndrewScheer}

\* a paragraph, alone or in the <blockquote> a QuotePara gives it
Quoted(para) == <<BlockquoteOpen, para, BlockquoteClose>>

SavedBlocks ==
    {<<SavedPara("procedural", "", 2)>>,
     <<SavedPara("procedural", "", 301)>>,
     Quoted(SavedPara("procedural", "", 2)),
     <<SavedPara("", "en", 2)>>,
     <<SavedPara("", "en", 298)>>,
     <<SavedPara("", "fr", 301)>>,
     <<SavedPara("", "", 301)>>}

RECURSIVE Concat(_)
Concat(blocks) == IF blocks = <<>> THEN <<>> ELSE Head(blocks) \o Concat(Tail(blocks))

\* clean_up_content: '</blockquote><blockquote>' removed
RECURSIVE JoinQuotes(_)
JoinQuotes(c) ==
    IF Len(c) < 2 THEN c
    ELSE IF c[1] = BlockquoteClose /\ c[2] = BlockquoteOpen THEN JoinQuotes(SubSeq(c, 3, Len(c)))
         ELSE <<c[1]>> \o JoinQuotes(Tail(c))

SaveIdle == [pc |-> "idle", who |-> <<>>, content |-> <<>>, procedural |-> FALSE, wordcount |-> 0]

SaveInit ==
    \E who \in SavedWho, blocks \in Lists(SavedBlocks, MaxSaved) :
        sv = [SaveIdle EXCEPT !.pc = "called", !.who = who,
                              !.content = JoinQuotes(Concat(blocks))]

\* Statement.save() of a statement import_document has built
save ==
    /\ sv.pc = "called"
    /\ sv' = [sv EXCEPT
                !.pc = "returned",
                !.content = SavedContent(sv.content),
                !.wordcount = _generate_wordcounts(SavedContent(sv.content)),
                !.procedural = LooksProcedural(sv.who, SavedContent(sv.content),
                                               _generate_wordcounts(SavedContent(sv.content)))]
    /\ UNCHANGED <<h, stack, nid, pc, doc, log, last, db, call, al, mg, again>>

\* ----------------------------------------------------- specifications

\* the walk of a document built from the structural tags
Init == WalkInit /\ ImportInit /\ al = AlignIdle /\ mg = MergeIdle /\ sv = SaveIdle /\ again = NotAgain

Next ==
    \/ Start
    \/ Open_ParaText
    \/ Open_PersonSpeaking
    \/ Open_Intervention
    \/ Open_SubjectOfBusiness
    \/ Open_SubjectOfBusinessQualifier
    \/ Open_Line
    \/ Open_default
    \/ OpenForced
    \/ Close
    \/ Finish

Spec == Init /\ [][Next]_vars

\* the walk, and then a second parse of the same document
NextTwice ==
    \/ Start
    \/ Open_ParaText
    \/ Open_PersonSpeaking
    \/ Open_Intervention
    \/ Open_SubjectOfBusiness
    \/ Open_SubjectOfBusinessQualifier
    \/ Open_Line
    \/ Open_default
    \/ OpenForced
    \/ Close
    \/ Finish
    \/ Reparse

InitTwice ==
    /\ WalkInit /\ ImportInit /\ al = AlignIdle /\ mg = MergeIdle /\ sv = SaveIdle
    /\ again = [NotAgain EXCEPT !.pc = "idle"]

SpecTwice == InitTwice /\ [][NextTwice]_vars

\* the walk of a document of timestamps, speaker labels and paragraphs
NextTimed ==
    \/ Start
    \/ Timed_Timestamp
    \/ Timed_ParaText
    \/ Timed_PersonSpeaking
    \/ Close
    \/ Finish

SpecTimed == Init /\ [][NextTimed]_vars

\* the walk of a document in which statements are closed with and without
\* content
NextClosing ==
    \/ Start
    \/ Closing_Affiliation
    \/ Closing_Block
    \/ Timed_ParaText
    \/ Timed_PersonSpeaking
    \/ Close
    \/ Finish

SpecClosing == Init /\ [][NextClosing]_vars

\* the walk of a document of paragraphs of every kind
NextParas ==
    \/ Start
    \/ Paras_ParaText
    \/ Paras_ProceduralText
    \/ Paras_PersonSpeaking
    \/ Paras_Intervention
    \/ Close
    \/ Finish

SpecParas == Init /\ [][NextParas]_vars

\* the walk of a document of attributions, blocks and paragraphs
NextPeople ==
    \/ Start
    \/ People_PersonSpeaking
    \/ People_ParaText
    \/ People_Block
    \/ Close
    \/ Finish

SpecPeople == Init /\ [][NextPeople]_vars

\* the walk of a document of agenda blocks, their titles and paragraphs
NextHeadings ==
    \/ Start
    \/ Heading_Block
    \/ Heading_Title
    \/ Heading_ParaText
    \/ Close
    \/ Finish

SpecHeadings == Init /\ [][NextHeadings]_vars

\* the walk of a document of speaker labels and paragraphs
NextSpeaker ==
    \/ Start
    \/ Speaker_PersonSpeaking
    \/ Speaker_ParaText
    \/ Speaker_Intervention
    \/ OpenForced
    \/ Close
    \/ Finish

SpecSpeaker == Init /\ [][NextSpeaker]_vars

\* imports, re-imports and downloads of one document
NextImport ==
    \/ Import
    \/ delete_downloaded
    \/ save_xml

SpecImport == Init /\ [][NextImport]_vars

\* imports of one document with and without a terminal
NextRefused ==
    \/ ImportUnattended
    \/ ImportAttended
    \/ delete_downloaded
    \/ save_xml

SpecRefused == Init /\ [][NextRefused]_vars

\* the download and the first import of one document
NextSlugs ==
    \/ save_xml
    \/ FirstImport

SpecSlugs == Init /\ [][NextSlugs]_vars

\* _align_sequences on lists of old and new statements
InitAlign == WalkInit /\ ImportInit /\ AlignInit /\ mg = MergeIdle /\ sv = SaveIdle /\ again = NotAgain

NextAlign == Align

SpecAlign == InitAlign /\ [][NextAlign]_vars

\* the bilingual merge on an English and a French parse
InitMerge == WalkInit /\ ImportInit /\ al = AlignIdle /\ MergeInit /\ sv = SaveIdle /\ again = NotAgain

NextMerge == Merge

SpecMerge == InitMerge /\ [][NextMerge]_vars

\* Statement.save() on one statement
InitSave == WalkInit /\ ImportInit /\ al = AlignIdle /\ mg = MergeIdle /\ SaveInit /\ again = NotAgain

NextSave == save

SpecSave == InitSave /\ [][NextSave]_vars

\* ------------------------------------------------- properties of the walk

\* the tags _default_handler raises on: no handle_ method, not excluded,
\* not ignored
UnknownTag(tag) ==
    HandlerFor(tag) = "_default_handler" /\ tag \notin EXCLUDE_TAGS /\ tag \notin IGNORE_TAGS

\* C1: once an element with an unknown tag has been opened, the parse has
\* raised AlpheusError, that OPEN is the last call dispatched, and no
\* statement list has been handed to the caller.
C1_UnknownTagAborts ==
    \A i \in 1..Len(log) :
        (log[i].oc = TAG_OPEN /\ UnknownTag(log[i].tag))
            => /\ i = Len(log)
               /\ pc = "raised"
               /\ h.err = "AlpheusError"
               /\ doc = <<>>

\* an unknown tag met after a statement had been finalized: the statement
\* never reaches the caller
C1_Witness ==
    /\ log # <<>>
    /\ UnknownTag(Last(log).tag)
    /\ pc = "raised"
    /\ h.statements # <<>>

\* content.strip() of a statement's content
Trimmed(c) == RStripTok(LStripTok(c))

\* C2: at every point of the parse every statement of the finalized list,
\* and of the list handed to the caller, has content left after trimming.
C2_FinalizedNonEmpty ==
    /\ \A i \in 1..Len(h.statements) : Trimmed(h.statements[i].content) # <<>>
    /\ \A i \in 1..Len(doc) : Trimmed(doc[i].content) # <<>>

\* a statement has just been finalized whose content had whitespace to trim
C2_Witness ==
    /\ last.pre.cur # <<>>
    /\ Len(h.statements) = Len(last.pre.statements) + 1
    /\ Last(h.statements).content # last.pre.cur[1].content
    /\ Trimmed(Last(h.statements).content) # <<>>

\* the elements opened and not yet closed after the calls of l, innermost last
RECURSIVE OpenPath(_)
PathAfter(path, e) ==
    IF e.oc = TAG_OPEN
    THEN IF e.ret # NO_DESCEND THEN Append(path, e.nid) ELSE path
    ELSE SubSeq(path, 1, Len(path) - 1)

OpenPath(l) == IF l = <<>> THEN <<>> ELSE PathAfter(OpenPath(SubSeq(l, 1, Len(l) - 1)), Last(l))

\* the call l[j] fits a depth-first walk: an OPEN is for a child of the
\* innermost open element, a CLOSE is for the innermost open element
FitsWalk(path, e) ==
    IF e.oc = TAG_OPEN THEN e.parent = (IF path = <<>> THEN 0 ELSE Last(path))
    ELSE path # <<>> /\ e.nid = Last(path)

\* C5: the calls dispatched so far are a pre-order depth-first walk: every
\* call goes to the handler named after the element's tag; an element is
\* opened once, before any of its children, and in document order; it is
\* closed once, by the same handler, after all its descendants, and when
\* the walk is over every element that was descended into has been closed;
\* an element whose OPEN returned NO_DESCEND has no descendant dispatched
\* and is never closed.
C5_PreOrderWalk ==
    /\ \A j \in 1..Len(log) :
          /\ log[j].handler = HandlerFor(log[j].tag)
          /\ FitsWalk(OpenPath(SubSeq(log, 1, j - 1)), log[j])
    /\ \A i \in 1..Len(log), j \in 1..Len(log) :
          /\ (log[i].nid = log[j].nid /\ log[i].oc = log[j].oc) => i = j
          /\ (log[i].nid = log[j].nid /\ log[i].oc = TAG_OPEN /\ log[j].oc = TAG_CLOSE)
                => (i < j /\ log[i].handler = log[j].handler)
          /\ (log[i].oc = TAG_OPEN /\ log[j].oc = TAG_OPEN /\ i < j) => log[i].nid < log[j].nid
          /\ (log[i].oc = TAG_OPEN /\ log[i].ret = NO_DESCEND)
                => (log[j].parent # log[i].nid
                    /\ ~(log[j].nid = log[i].nid /\ log[j].oc = TAG_CLOSE))
    /\ pc \in {"final", "done"} => OpenPath(log) = <<>>

\* a finished walk in which an element two levels down was not descended into
C5_Witness ==
    /\ pc = "done"
    /\ \E i \in 1..Len(log) :
          /\ log[i].oc = TAG_OPEN
          /\ log[i].ret = NO_DESCEND
          /\ log[i].parent > 1
    /\ Cardinality({i \in 1..Len(log) : log[i].oc = TAG_CLOSE}) >= 3

\* a SubjectOfBusiness has closed and no SubjectOfBusinessQualifier was met since
QualifierCleared ==
    \E i \in 1..Len(log) :
        /\ log[i].tag = "SubjectOfBusiness"
        /\ log[i].oc = TAG_CLOSE
        /\ \A j \in (i + 1)..Len(log) : log[j].tag # "SubjectOfBusinessQualifier"

\* the step just taken opened a statement
StatementOpened == last.pre.cur = <<>> /\ h.cur # <<>>

\* C8: when a SubjectOfBusiness closes, the h3 a SubjectOfBusinessQualifier
\* had set leaves the current headings, and a statement opened afterwards
\* (before another qualifier) does not carry an h3.
C8_H3ClearedOnClose ==
    QualifierCleared
        => /\ ~Has(h.current_attributes, "h3")
           /\ StatementOpened => ~Has(h.cur[1].meta, "h3")

\* a qualifier set an h3, its SubjectOfBusiness closed, and a statement has
\* just been opened
C8_Witness ==
    /\ QualifierCleared
    /\ \E i \in 1..Len(log) : log[i].tag = "SubjectOfBusinessQualifier"
    /\ StatementOpened
    /\ ~Has(h.cur[1].meta, "h3")

\* ----------------------------------------- properties of the attribution

\* the step just taken was the OPEN of a PersonSpeaking with an Affiliation
PersonSpeakingStep ==
    /\ last.oc = TAG_OPEN
    /\ last.el.tag = "PersonSpeaking"
    /\ last.el.aff.present
    /\ last.el.aff.text # <<>>

\* the step just taken was the OPEN of a paragraph that starts with a label
LabelledParaStep ==
    /\ last.oc = TAG_OPEN
    /\ last.el.tag = "ParaText"
    /\ LooksLikeNewSpeaker(last.el, Strip(last.el.text))

\* a speaker-change signal: the id and the description it carries
SignalStep == PersonSpeakingStep \/ LabelledParaStep

SignalId ==
    IF PersonSpeakingStep THEN last.el.aff.DbId
    ELSE IF last.el.lead.tag = "Affiliation" THEN last.el.lead.DbId
    ELSE None

SignalDescription ==
    _tame_whitespace(IF PersonSpeakingStep THEN last.el.aff.text
                     ELSE DropAtoms(last.el.lead.text, {":"}))

\* the statement that was open when the step began
OpenBefore == last.pre.cur[1]

\* the open statement was finalized by the step, as the last of the list
PreviousClosed ==
    /\ h.err = "none"
    /\ Len(h.statements) = Len(last.pre.statements) + 1
    /\ Last(h.statements).meta = (clean_up_content(OpenBefore)).st.meta
    /\ Last(h.statements).content = (clean_up_content(OpenBefore)).st.content

\* what the signal says goes to a statement of its own
FreshStatement ==
    IF LabelledParaStep
    THEN /\ h.cur # <<>>
         /\ h.cur[1].content[1].k = "p"
         /\ h.cur[1].content[1].id = last.el.id
         /\ Get(h.cur[1].meta, "person_attribution", <<>>) = SignalDescription
    ELSE /\ h.cur = <<>>
         /\ Get(h.one_time_attributes, "person_attribution", <<>>) = SignalDescription

\* the numbers of the paragraphs of a content, in the order they stand
ParagraphIds(c) == SelectSeq(c, LAMBDA t : t.k = "p")

InDocumentOrder(c) ==
    \A i \in 1..Len(ParagraphIds(c)), j \in 1..Len(ParagraphIds(c)) :
        i < j => \E m \in 0..20, n \in 0..20 :
                    /\ m < n
                    /\ ParagraphIds(c)[i].id = ToString(m)
                    /\ ParagraphIds(c)[j].id = ToString(n)

\* C3: a signal that carries the non-empty person id of the open statement,
\* with a description that is not indeterminate, leaves that statement
\* open: nothing is finalized, what the statement held stays at its head,
\* and a paragraph the signal brings is added after it; so a run of such
\* signals ends up in one statement, and the paragraphs of every statement
\* stand in document order.
C3_SameIdOneStatement ==
    /\ (/\ SignalStep
        /\ last.pre.cur # <<>>
        /\ SignalId \notin {None, ""}
        /\ Get(OpenBefore.meta, "person_id", None) = SignalId
        /\ ~_r_indeterminate_search(SignalDescription))
          => /\ h.err = "none"
             /\ h.statements = last.pre.statements
             /\ h.cur # <<>>
             /\ Get(h.cur[1].meta, "person_id", None) = SignalId
             /\ IsPrefix(OpenBefore.content, h.cur[1].content)
             /\ LabelledParaStep
                  => /\ Len(h.cur[1].content) > Len(OpenBefore.content)
                     /\ h.cur[1].content[Len(OpenBefore.content) + 1].k = "p"
                     /\ h.cur[1].content[Len(OpenBefore.content) + 1].id = last.el.id
    /\ \A i \in 1..Len(h.statements) : InDocumentOrder(h.statements[i].content)
    /\ h.cur # <<>> => InDocumentOrder(h.cur[1].content)

\* a third signal for person 7 in a row, the first two paragraphs still in
\* the one open statement
C3_Witness ==
    /\ LabelledParaStep
    /\ SignalId = "7"
    /\ h.statements = <<>>
    /\ h.cur # <<>>
    /\ Get(h.cur[1].meta, "person_id", None) = "7"
    /\ Len(ParagraphIds(h.cur[1].content)) >= 3
    /\ Cardinality({i \in 1..Len(log) : log[i].oc = TAG_OPEN /\ log[i].tag = "ParaText"}) = 3

\* the signal carries no id and repeats the label of the open statement
RepeatedLabel ==
    /\ SignalStep
    /\ SignalId = None
    /\ last.pre.cur # <<>>
    /\ Get(OpenBefore.meta, "person_attribution", <<>>) = SignalDescription

\* the labels of generic roles
GenericLabels == {DesVoix, AnHonMember}

\* C4 (as the code has it): two consecutive signals without an id whose
\* common label is indeterminate (An ..., A ..., Une ...) give two separate
\* statements: the second signal finalizes the statement of the first and
\* what it says goes to a statement of its own.
C4_IndeterminateNotCoalesced ==
    (RepeatedLabel /\ _r_indeterminate_search(SignalDescription))
        => (PreviousClosed /\ FreshStatement)

\* "An hon. member:" twice in a row: two statements
C4_Witness ==
    /\ RepeatedLabel
    /\ LabelledParaStep
    /\ SignalDescription = AnHonMember
    /\ Len(h.statements) = 1
    /\ Get(h.statements[1].meta, "person_attribution", <<>>) = AnHonMember
    /\ h.cur # <<>>

\* C4 (as stated): two consecutive signals without an id and with the same
\* generic-role label ("Des voix", "An hon. member") give two separate
\* statements.
C4_GenericNotCoalesced ==
    (RepeatedLabel /\ SignalDescription \in GenericLabels)
        => (PreviousClosed /\ FreshStatement)

\* the same-speaker test as C6 words it
SameSpeaker ==
    /\ ~_r_indeterminate_search(SignalDescription)
    /\ \/ /\ SignalId # None
          /\ SignalId = Get(OpenBefore.meta, "person_id", None)
       \/ /\ SignalId = None
          /\ _letters_only(_strip_person_name(SignalDescription))
               = _letters_only(_strip_person_name(
                    Get(OpenBefore.meta, "person_attribution", <<>>)))

\* C6: with a statement open, a PersonSpeaking whose attribution is the same
\* speaker (not indeterminate, and the same id, or no id and the same
\* letters-only stripped description) leaves the open statement and the
\* pending attributes untouched; any other attribution closes the open
\* statement and becomes the pending attribution.
C6_SameSpeakerTest ==
    (PersonSpeakingStep /\ last.pre.cur # <<>>)
        => IF SameSpeaker
           THEN /\ h.err = "none"
                /\ h.cur = last.pre.cur
                /\ h.statements = last.pre.statements
                /\ h.one_time_attributes = last.pre.one_time_attributes
           ELSE PreviousClosed /\ FreshStatement

\* the paragraph before the one just opened, under the same parent, was a
\* one-line interjection of a generic role that interrupted the main
\* speaker's speech
AfterInterjection ==
    /\ last.oc = TAG_OPEN
    /\ last.el.tag = "ParaText"
    /\ ~LooksLikeNewSpeaker(last.el, Strip(last.el.text))
    /\ Len(log) >= 3
    /\ log[Len(log) - 1].tag = "ParaText"
    /\ log[Len(log) - 1].oc = TAG_CLOSE
    /\ log[Len(log) - 1].parent = last.el.parent
    /\ \E i \in 1..Len(log) :
          /\ log[i].nid = log[Len(log) - 1].nid
          /\ log[i].oc = TAG_OPEN
          /\ log[i].label \in GenericLabels
    /\ last.pre.cur # <<>>
    /\ Get(OpenBefore.meta, "person_attribution", <<>>) \in GenericLabels
    /\ Len(ParagraphIds(OpenBefore.content)) = 1
    /\ last.pre.main_statement_speaker[2] # <<>>
    /\ last.pre.statements # <<>>
    /\ Get(Last(last.pre.statements).meta, "person_attribution", <<>>)
         = _tame_whitespace(last.pre.main_statement_speaker[2])

\* C7: the paragraph without a label that follows a one-line interjection
\* under the same parent goes to a new statement of the speaker who was
\* interrupted, and the interjection's statement keeps its one paragraph.
C7_RevertsAfterInterjection ==
    AfterInterjection
        => /\ PreviousClosed
           /\ h.cur # <<>>
           /\ h.cur[1].content[1].id = last.el.id
           /\ Get(h.cur[1].meta, "person_attribution", <<>>)
                = _tame_whitespace(last.pre.main_statement_speaker[2])

\* ------------------------------------------- properties of the import

\* the statements a complete import of the parsed transcript p stores
CompleteSet(p) == set_slugs(Built(p.statements))

\* the mappings a call added to those stored before it
AddedMappings == SubSeq(db.mappings, Len(call.before.mappings) + 1, Len(db.mappings))

\* C9: however import_document(document, reimport_preserving_sequence=True)
\* ended, either the stored statements and mappings are those from before
\* the call, or the stored statements are the complete new set and the call
\* added one old-sequence mapping for each old statement, to a slug of the
\* new set.
C9_ReimportAllOrNothing ==
    (call.fn = "import_document" /\ call.reimport)
        => \/ /\ db.statements = call.before.statements
              /\ db.mappings = call.before.mappings
           \/ /\ call.outcome = "Document"
              /\ call.p.err = "none"
              /\ db.statements = CompleteSet(call.p)
              /\ Len(db.mappings) = Len(call.before.mappings) + Len(call.before.statements)
              /\ SubSeq(db.mappings, 1, Len(call.before.mappings)) = call.before.mappings
              /\ Sequences(AddedMappings)
                   = {call.before.statements[i].sequence : i \in 1..Len(call.before.statements)}
              /\ \A i \in 1..Len(AddedMappings) :
                    \E j \in 1..Len(db.statements) : AddedMappings[i].slug = db.statements[j].slug

\* C10: _align_sequences never raises, and what it returns holds exactly one
\* mapping for each old statement, each to the slug of a new statement.
C10_AlignTotal ==
    /\ al.pc # "raised"
    /\ al.pc = "returned"
         => /\ Len(al.mappings) = Len(al.old)
            /\ \A k \in 1..Len(al.old) :
                  Cardinality({i \in 1..Len(al.mappings) :
                                  al.mappings[i].sequence = al.old[k].sequence}) = 1
            /\ \A i \in 1..Len(al.mappings) :
                  \E j \in 1..Len(al.new) : al.mappings[i].slug = al.new[j].slug

\* ------------------------------------------- properties of the alignment

\* the old and the new statements hold the same number of statements under
\* the name
SameCount(speaker) ==
    Len(build_speaker_dict(al.old, speaker)) = Len(build_speaker_dict(al.new, speaker))

\* the slugs the returned mappings give for the old statement
SlugsFor(old) ==
    {al.mappings[k].slug : k \in {j \in 1..Len(al.mappings) :
                                     al.mappings[j].sequence = old.sequence}}

\* the i-th old statement of the name went to the i-th new one of the name
Positional(speaker) ==
    \A i \in 1..Len(build_speaker_dict(al.old, speaker)) :
        SlugsFor(build_speaker_dict(al.old, speaker)[i])
          = {build_speaker_dict(al.new, speaker)[i].slug}

OldNames == {name_info(al.old[i]).display_name : i \in 1..Len(al.old)}

\* C11 as stated: under every name with the same number of old and new
\* statements, the returned mappings pair the statements of the name by
\* position.
C11_EqualCountPositional ==
    al.pc = "returned" => \A speaker \in OldNames : SameCount(speaker) => Positional(speaker)

\* C11: under every name that is not empty and has the same number of old
\* and new statements, the returned mappings pair the statements of the name
\* by position, whatever their similarity.
C11_NamedEqualCountPositional ==
    al.pc = "returned"
        => \A speaker \in OldNames \ {<<>>} : SameCount(speaker) => Positional(speaker)

\* two statements of a name were paired by position although the text of
\* each old one is that of the other new one
C11_Witness ==
    /\ al.pc = "returned"
    /\ \E speaker \in OldNames \ {<<>>} :
          /\ Len(build_speaker_dict(al.old, speaker)) = 2
          /\ SameCount(speaker)
          /\ Positional(speaker)
          /\ build_speaker_dict(al.old, speaker)[1].text
               = build_speaker_dict(al.new, speaker)[2].text
          /\ build_speaker_dict(al.old, speaker)[1].text
               # build_speaker_dict(al.new, speaker)[1].text

\* 0 <= score / (12000 * 1.8) <= 1 for a score as calculate_similarity holds it
InUnitInterval(score) == 0 <= score /\ score <= 21600

\* C12: every value calculate_similarity returned during the call lies in
\* the closed interval from 0 to 1.
C12_SimilarityInUnitInterval == \A c \in al.scores : InUnitInterval(c.score)

\* old statement i and new statement j have the same name, text and time and
\* are the only statements under that name
OneToOne(i, j) ==
    /\ name_info(al.old[i]).display_name = name_info(al.new[j]).display_name
    /\ al.old[i].text = al.new[j].text
    /\ al.old[i].time = al.new[j].time
    /\ Len(build_speaker_dict(al.old, name_info(al.old[i]).display_name)) = 1
    /\ Len(build_speaker_dict(al.new, name_info(al.new[j]).display_name)) = 1

\* the similarities the call computed for old statement i and new statement j
SimilaritiesOf(i, j) ==
    {c.score : c \in {x \in al.scores : x.old = al.old[i].sequence /\ x.new = al.new[j].slug}}

\* C13: once _align_sequences has run, an old and a new statement with the
\* same text and time that are alone under their name were compared, with a
\* similarity of at least 0.95 (20520 of 21600), and the mapping
\* (old.sequence, new.slug) is returned.
C13_IdenticalOneToOne ==
    al.pc # "called"
        => \A i \in 1..Len(al.old), j \in 1..Len(al.new) :
              OneToOne(i, j)
                => /\ al.pc = "returned"
                   /\ SimilaritiesOf(i, j) # {}
                   /\ \A score \in SimilaritiesOf(i, j) : score >= 20520
                   /\ \E k \in 1..Len(al.mappings) :
                         al.mappings[k] = Mapping(al.old[i], al.new[j])

\* such a pair was aligned among other statements, the new one also the
\* choice for another old statement
C13_Witness ==
    /\ al.pc = "returned"
    /\ Len(al.old) = 2
    /\ \E i \in 1..Len(al.old), j \in 1..Len(al.new) :
          /\ OneToOne(i, j)
          /\ \E k \in 1..Len(al.mappings) :
                /\ al.mappings[k].slug = al.new[j].slug
                /\ al.mappings[k].sequence # al.old[i].sequence

\* ------------------------------------------------ properties of the merge

\* the French statement found under an English statement's source id
Counterpart(a, b) ==
    /\ a.id = b.id
    /\ _get_paragraph_ids(a.content) = _get_paragraph_ids(b.content)
    /\ AllIds(_get_paragraph_ids(a.content))

\* the two parses hold the same statements: same source ids, and under
\* each id the same sequence of non-zero paragraph ids
SameStatements(en, fr) ==
    /\ \A i \in 1..Len(en) : \E j \in 1..Len(fr) : Counterpart(en[i], fr[j])
    /\ \A j \in 1..Len(fr) : \E i \in 1..Len(en) : Counterpart(en[i], fr[j])

FrenchOf(st) == CHOOSE f \in {mg.fr[j] : j \in 1..Len(mg.fr)} : f.id = st.id

\* C14 as stated: when the two parses hold the same statements, there is
\* one stored statement per English statement, whose content_en is the
\* English parsed content and whose content_fr is the content of the French
\* statement with the same source id, and multilingual is true.
C14_MergeByStatement ==
    (mg.pc = "returned" /\ SameStatements(mg.en, mg.fr))
        => /\ Len(mg.statements) = Len(mg.en)
           /\ mg.multilingual
           /\ \A i \in 1..Len(mg.en) :
                 /\ mg.statements[i].content_en = mg.en[i].content
                 /\ mg.statements[i].content_fr = FrenchOf(mg.en[i]).content

\* C14 as the code has it: for the statements with a non-empty source id,
\* the stored contents are the parsed contents with their related links
\* rewritten and one newline after every paragraph but the last item.
C14_MergeByStatementProcessed ==
    (mg.pc = "returned" /\ SameStatements(mg.en, mg.fr))
        => /\ Len(mg.statements) = Len(mg.en)
           /\ mg.multilingual
           /\ \A i \in 1..Len(mg.en) :
                 mg.en[i].id # ""
                    => /\ mg.statements[i].source_id = mg.en[i].id
                       /\ WithoutNewlines(mg.statements[i].content_en)
                             = _process_related_links(mg.en[i].content)
                       /\ WithoutNewlines(mg.statements[i].content_fr)
                             = _process_related_links(FrenchOf(mg.en[i]).content)
                       /\ \A k \in 1..Len(mg.statements[i].content_fr) - 1 :
                             (mg.statements[i].content_fr[k].k = "p")
                                 = (mg.statements[i].content_fr[k + 1].k = "nl")

\* two statements merged by statement, one with text outside its
\* paragraphs, in a different order in the two languages
C14_Witness ==
    /\ mg.pc = "returned"
    /\ SameStatements(mg.en, mg.fr)
    /\ Len(mg.en) = 2
    /\ mg.en[1].id = mg.fr[2].id
    /\ \A i \in 1..2 : mg.en[i].id # ""
    /\ \E i \in 1..2 : Len(_get_paragraph_ids(mg.en[i].content)) = 2

\* the French paragraphs with and without an id
FrenchWithId(fr) ==
    Cardinality({i \in 1..Len(AllParagraphs(fr)) : AllParagraphs(fr)[i].pid # 0})

FrenchWithoutId(fr) == Len(AllParagraphs(fr)) - FrenchWithId(fr)

\* an English statement for which some French statement has its source id
\* and its sequence of paragraph ids
PairedByStatement(st, fr) ==
    \E j \in 1..Len(fr) :
        /\ st.id # ""
        /\ fr[j].id = st.id
        /\ _get_paragraph_ids(fr[j].content) = _get_paragraph_ids(st.content)

\* an English statement whose every paragraph carries an id
PairedByParagraph(st) ==
    \A k \in 1..Len(st.content) : st.content[k].k = "p" => st.content[k].pid # 0

WordsOf(content) == WordsIn(content)

EveryParagraphProcedural(content) ==
    \A i \in 1..Len(content) : content[i].k = "p" => content[i].cls = "procedural"

NamedMember(who) == who # <<>> /\ ~r_notamember_search(who)

\* C16: after save a statement of fewer than 300 words is flagged
\* procedural when it has no attribution, or a generic-role attribution that
\* names the Speaker or Chair, or only procedural paragraphs; a statement of
\* more than 300 words is not flagged, and neither is one by a named member
\* that holds a non-procedural paragraph.
C16_SaveFlagsProcedural ==
    sv.pc = "returned"
        => /\ (/\ WordsOf(sv.content) < WordLimit
               /\ \/ sv.who = <<>>
                  \/ r_notamember_search(sv.who) /\ r_chair_search(sv.who)
                  \/ EveryParagraphProcedural(sv.content))
                 => sv.procedural
           /\ WordsOf(sv.content) > WordLimit => ~sv.procedural
           /\ (NamedMember(sv.who) /\ ~EveryParagraphProcedural(sv.content)) => ~sv.procedural

\* ------------------------------------------- properties of the exceptions

\* C17: whatever the sequence of tag events, a walk that stops on an
\* exception stops on AlpheusError: no handler fails with an assertion or
\* with another exception type.
C17_OnlyAlpheusError ==
    /\ h.err \in {"none", "AlpheusError"}
    /\ pc = "raised" => h.err = "AlpheusError"

\* ------------------------------------------- properties of a second parse

FinalizedKept ==
    \A i \in 1..Len(h.statements) :
        i <= Len(h.statements') /\ h.statements'[i] = h.statements[i]

\* C19: at most one statement is open at any time, and no tag event changes
\* the content or the metadata of a statement already appended to the
\* finalized list.
C19_FinalizedFrozen == [](Len(h.cur) <= 1) /\ [][FinalizedKept]_vars

\* a Timestamp met after a statement was finalized, while a statement with
\* procedural text only is open: its time goes to the open statement
C19_Witness ==
    /\ last.el.tag = "Timestamp"
    /\ h.statements # <<>>
    /\ h.cur # <<>>
    /\ last.pre.cur # <<>>
    /\ Has(h.cur[1].meta, "timestamp")
    /\ \/ ~Has(last.pre.cur[1].meta, "timestamp")
       \/ last.pre.cur[1].meta["timestamp"] # h.cur[1].meta["timestamp"]
    /\ h.statements = last.pre.statements

\* --------------------------------------- properties of closing a statement

\* the handler held an open statement with nothing but white space in it
BlankOpen(hh) == hh.cur # <<>> /\ ~HasContent(TameContent(hh.cur[1].content))

\* the last call is one in which the open statement, if any, is closed: the
\* close of an Intervention, QuestionContent or ResponseContent, or a
\* PersonSpeaking with an id the open statement does not have
ClosingCall ==
    \/ /\ last.oc = TAG_CLOSE
       /\ last.el.tag \in {"Intervention", "QuestionContent", "ResponseContent"}
    \/ /\ last.oc = TAG_OPEN
       /\ last.el.tag = "PersonSpeaking"
       /\ last.el.aff.DbId \notin {None, ""}
       /\ last.pre.cur # <<>>
       /\ Get(last.pre.cur[1].meta, "person_id", None) # last.el.aff.DbId

\* the walk is over: get_final_statements has run
EndOfDocument == pc \in {"done", "raised"} /\ last.oc = 0

\* C20: whenever an open statement with only white space in it is closed, by
\* a speaker change, by the close of an Intervention, QuestionContent or
\* ResponseContent, or by the end of the document, the parse raises
\* AlpheusError and the finalized list is left as it was.
C20_EmptyCloseRaises ==
    ((ClosingCall \/ EndOfDocument) /\ BlankOpen(last.pre))
        => /\ h.err = "AlpheusError"
           /\ h.statements = last.pre.statements

\* ----------------------------------------------- properties of the headings

\* the heading field a call sets, "" when it sets none
HeadingOf(e) ==
    CASE e.tag = "OrderOfBusinessTitle" -> "h1"
      [] e.tag = "SubjectOfBusinessTitle" -> "h2"
      [] e.tag = "SubjectOfBusinessQualifier" -> "h3"
      [] e.tag = "WrittenQuestionResponse" /\ e.oc = TAG_OPEN -> "h3"
      [] OTHER -> ""

\* the element that holds the tag that set the heading: the parent of a
\* title or qualifier, the WrittenQuestionResponse of a QuestionID
ContainerOf(e) == IF e.tag = "WrittenQuestionResponse" THEN e.nid ELSE e.parent

\* call i set a heading that no other call set, and a later call closed the
\* element that holds it
SetAndLeft(i) ==
    /\ HeadingOf(log[i]) # ""
    /\ \A k \in 1..Len(log) : HeadingOf(log[k]) = HeadingOf(log[i]) => k = i
    /\ \E j \in (i + 1)..Len(log) : log[j].nid = ContainerOf(log[i]) /\ log[j].oc = TAG_CLOSE

\* C21: a statement opened after the element that holds a title, a
\* qualifier or a question id has closed does not carry the heading set
\* inside that element.
C21_HeadingsResetOnClose ==
    \A i \in 1..Len(log) :
        (SetAndLeft(i) /\ StatementOpened) => ~Has(h.cur[1].meta, HeadingOf(log[i]))

\* ------------------------------------------- properties of the attributions

\* the call just made was a PersonSpeaking that recorded its speaker
Attributed ==
    /\ last.el.tag = "PersonSpeaking"
    /\ last.oc = TAG_OPEN
    /\ h.err = "none"
    /\ Has(h.one_time_attributes, "person_attribution")

AttributedName == _strip_person_name(_tame_whitespace(last.el.aff.text))

\* what the attribution itself shows of the speaker: id, type and context
\* ("" or <<>> when it shows none)
ShownId == IF last.el.aff.DbId \in {None, ""} THEN "" ELSE last.el.aff.DbId

ShownType == PersonTypeOf(last.el.aff.Type)

ShownContext == context_match(_tame_whitespace(last.el.aff.text))

\* the attribution shows no value, the name was seen with one: the pending
\* attributes take the value seen
LookedUp(shown, seen, key) ==
    (~shown /\ Has(seen, AttributedName))
        => Get(h.one_time_attributes, key, None) = seen[AttributedName]

\* the value kept for the name is the one this attribution shows or, when it
\* shows none, the one kept before
KeptAsObserved(shown, value, seen, kept) ==
    Has(kept, AttributedName)
        => IF shown THEN kept[AttributedName] = value
           ELSE Has(seen, AttributedName) /\ kept[AttributedName] = seen[AttributedName]

\* C22: an attribution without an id (without an affiliation type, without
\* a context in parentheses) whose stripped name was seen with one takes
\* the value most recently seen for that name, the values kept for a name
\* being those its own attributions showed; a type code other than 26, 27
\* and 28 sets no person type.
C22_MissingFromMemo ==
    Attributed
        => /\ LookedUp(ShownId # "", last.pre.people_seen, "person_id")
           /\ LookedUp(last.el.aff.Type \notin {None, ""}, last.pre.people_types_seen,
                       "person_type")
           /\ LookedUp(ShownContext # <<>>, last.pre.people_contexts, "person_context")
           /\ KeptAsObserved(ShownId # "", ShownId, last.pre.people_seen, h.people_seen)
           /\ KeptAsObserved(ShownType # "", ShownType, last.pre.people_types_seen,
                             h.people_types_seen)
           /\ KeptAsObserved(ShownContext # <<>>, ShownContext, last.pre.people_contexts,
                             h.people_contexts)
           /\ (last.el.aff.Type \notin {None, "", "26", "27", "28"}
                 => Get(h.one_time_attributes, "person_type", None)
                        = Get(last.pre.one_time_attributes, "person_type", None))

\* ------------------------------- properties of the merge by paragraph

\* statement i was merged paragraph by paragraph
ByParagraph(i) ==
    /\ mg.pc = "returned"
    /\ ~FrenchUnavailable(mg.fr)
    /\ ~PairedByStatement(mg.en[i], mg.fr)
    /\ PairedByParagraph(mg.en[i])

\* the French parse holds a paragraph with this id
InFrench(pid) == \E k \in 1..Len(AllParagraphs(mg.fr)) : AllParagraphs(mg.fr)[k].pid = pid

\* the last paragraph of the French parse with this id
FrenchParagraph(pid) ==
    LET ps == AllParagraphs(mg.fr)
        k == CHOOSE x \in 1..Len(ps) :
                 ps[x].pid = pid /\ \A y \in 1..Len(ps) : ps[y].pid = pid => y <= x
    IN  ps[k]

\* C23 as stated: after a merge by paragraph content_fr holds as many
\* paragraphs as content_en, in the same order, each the French paragraph
\* with the same id when the French parse has one and the unchanged English
\* paragraph otherwise.
C23_MergeByParagraph ==
    \A i \in 1..Len(mg.statements) :
        ByParagraph(i)
            => LET pe == Paragraphs(mg.statements[i].content_en)
                   pf == Paragraphs(mg.statements[i].content_fr)
               IN  /\ Len(pf) = Len(pe)
                   /\ \A j \in 1..Len(pe) :
                          pf[j] = IF InFrench(pe[j].pid) THEN FrenchParagraph(pe[j].pid)
                                  ELSE pe[j]

\* C23, amended: each paragraph of content_fr is the French paragraph with
\* the same id after its related links were rewritten, and the paragraph of
\* content_en otherwise.
C23_MergeByParagraphProcessed ==
    \A i \in 1..Len(mg.statements) :
        ByParagraph(i)
            => LET pe == Paragraphs(mg.statements[i].content_en)
                   pf == Paragraphs(mg.statements[i].content_fr)
               IN  /\ Len(pf) = Len(pe)
                   /\ \A j \in 1..Len(pe) :
                          pf[j] = IF InFrench(pe[j].pid)
                                  THEN _process_related_link(FrenchParagraph(pe[j].pid))
                                  ELSE pe[j]

\* a statement merged by paragraph, with one paragraph found in French and
\* one not
C23_Witness ==
    \E i \in 1..Len(mg.statements) :
        /\ ByParagraph(i)
        /\ \E j, k \in 1..Len(Paragraphs(mg.statements[i].content_en)) :
               /\ InFrench(Paragraphs(mg.statements[i].content_en)[j].pid)
               /\ Paragraphs(mg.statements[i].content_fr)[j].lang = "fr"
               /\ ~InFrench(Paragraphs(mg.statements[i].content_en)[k].pid)
               /\ Paragraphs(mg.statements[i].content_fr)[k].lang = "en"

\* ---------------------------------------------- properties of timestamps

\* the call just made was a Timestamp with an hour, read while a statement
\* was open
TimestampOnOpen ==
    /\ last.el.tag = "Timestamp"
    /\ last.oc = TAG_OPEN
    /\ last.el.Hr \notin {None, ""}
    /\ last.pre.cur # <<>>
    /\ h.cur # <<>>

TimestampOf(meta) == Get(meta, "timestamp", None)

\* two dicts hold the same timestamp, or none
SameTime(a, b) ==
    /\ Has(a, "timestamp") <=> Has(b, "timestamp")
    /\ Has(a, "timestamp") => a["timestamp"] = b["timestamp"]

\* a statement takes the timestamp known when it is opened
OpenedWithKnownTime ==
    StatementOpened
        => SameTime(h.cur[1].meta, last.pre.current_attributes)

\* C24 as stated: a statement takes the most recent timestamp known when
\* it is opened, and a later Timestamp changes the timestamp of an open
\* statement only if that statement had no timestamp yet.
C24_BackFillOnlyWithoutTimestamp ==
    /\ OpenedWithKnownTime
    /\ TimestampOnOpen
           => (~SameTime(h.cur[1].meta, last.pre.cur[1].meta)
                   => ~Has(last.pre.cur[1].meta, "timestamp"))

\* C24, amended: a later Timestamp sets the timestamp of the open statement
\* exactly when that statement has had no non-procedural paragraph yet,
\* whether or not it had a timestamp.
C24_BackFillWhileProcedural ==
    /\ OpenedWithKnownTime
    /\ TimestampOnOpen
           => IF Get(last.pre.cur[1].meta, "has_non_procedural", FALSE)
              THEN h.cur[1].meta = last.pre.cur[1].meta
              ELSE h.cur[1].meta
                       = Put(last.pre.cur[1].meta, "timestamp",
                             TimestampOf(h.current_attributes))

\* a Timestamp replaced the timestamp of an open statement that had one
C24_Witness ==
    /\ TimestampOnOpen
    /\ Has(last.pre.cur[1].meta, "timestamp")
    /\ ~SameTime(h.cur[1].meta, last.pre.cur[1].meta)

\* a Timestamp left alone an open statement with a non-procedural paragraph
C24_WitnessKept ==
    /\ TimestampOnOpen
    /\ Get(last.pre.cur[1].meta, "has_non_procedural", FALSE)
    /\ ~SameTime(h.cur[1].meta, h.current_attributes)

\* ---------------------------------------------- properties of paragraphs

\* the <p ...> tags of a content
ParaTags(c) == SelectSeq(c, LAMBDA t : t.k = "p")

\* the call just made was the OPEN of a ParaText or ProceduralText that
\* emitted a paragraph into the open statement
ParaEmitted ==
    /\ last.el.tag \in {"ParaText", "ProceduralText"}
    /\ last.oc = TAG_OPEN
    /\ h.err = "none"
    /\ h.cur # <<>>
    /\ Len(ParaTags(h.cur[1].content))
           > (IF last.pre.cur = <<>> \/ Len(h.statements) # Len(last.pre.statements) THEN 0
              ELSE Len(ParaTags(last.pre.cur[1].content)))

EmittedTag == Last(ParaTags(h.cur[1].content))

\* el.text after its leading white space starts with one of the atoms
TextStartsWith(atoms) == Strip(last.el.text) # <<>> /\ Strip(last.el.text)[1] \in atoms

\* the statement the paragraph went to has a speaker
SpeakerKnown == Get(h.cur[1].meta, "person_attribution", <<>>) # <<>>

\* C25: a paragraph is procedural exactly when it comes from a
\* ProceduralText, no speaker is known, its text starts with '(' or '[', or
\* its text starts with 'moved' or 'demande'; a procedural paragraph carries
\* no original-language marker; a paragraph that is not procedural sets
\* has_non_procedural on the statement it is added to.
C25_ProceduralParagraphs ==
    ParaEmitted
        => /\ (EmittedTag.cls = "procedural")
                  <=> \/ last.el.tag = "ProceduralText"
                      \/ ~SpeakerKnown
                      \/ TextStartsWith({"(", "["})
                      \/ TextStartsWith({"moved", "demande"})
           /\ EmittedTag.cls = "procedural" => EmittedTag.lang = ""
           /\ EmittedTag.cls # "procedural"
                  => Get(h.cur[1].meta, "has_non_procedural", FALSE)

\* a known speaker's paragraph is procedural because of how its text starts
C25_Witness ==
    /\ ParaEmitted
    /\ last.el.tag = "ParaText"
    /\ SpeakerKnown
    /\ TextStartsWith({"(", "[", "moved", "demande"})
    /\ EmittedTag.cls = "procedural"
    /\ EmittedTag.lang = ""

\* a known speaker's paragraph is speech and opens the statement
C25_WitnessSpeech ==
    /\ ParaEmitted
    /\ StatementOpened
    /\ EmittedTag.cls = ""
    /\ EmittedTag.lang = "en"
    /\ h.cur[1].meta["has_non_procedural"]

\* --------------------------------- properties of the one-time attributes

\* the pending value under key is the one this attribution shows or, when
\* it shows none, the one seen for its name
PendingFrom(key, shown, value, seen) ==
    Has(h.one_time_attributes, key)
        => IF shown THEN h.one_time_attributes[key] = value
           ELSE Has(seen, AttributedName) /\ h.one_time_attributes[key] = seen[AttributedName]

\* an element with this tag is open, and gave the statement these values
OpenBlock(tags, Gave(_)) == \E i \in 1..Len(stack) : stack[i].el.tag \in tags /\ Gave(stack[i].el)

\* C26: the person id, person type, context, intervention type, source id
\* and written-question marker of a statement are those of the
\* attribution or block that opened it: after an attribution the pending
\* person attributes are its own, and a statement that carries a block's
\* attributes is opened inside that block.
C26_AttributesOfOpener ==
    /\ Attributed
           => /\ PendingFrom("person_id", ShownId # "", ShownId, last.pre.people_seen)
              /\ PendingFrom("person_type", ShownType # "", ShownType,
                             last.pre.people_types_seen)
              /\ PendingFrom("person_context", ShownContext # <<>>, ShownContext,
                             last.pre.people_contexts)
    /\ StatementOpened
           => /\ Has(h.cur[1].meta, "written_question")
                     => OpenBlock({"QuestionContent", "ResponseContent"},
                                  LAMBDA el : el.tag = IF h.cur[1].meta["written_question"]
                                                           = "question"
                                                       THEN "QuestionContent"
                                                       ELSE "ResponseContent")
              /\ Has(h.cur[1].meta, "intervention_type")
                     => OpenBlock({"Intervention"},
                                  LAMBDA el : /\ el.Type = h.cur[1].meta["intervention_type"]
                                              /\ <<el.id>> = h.cur[1].meta["id"])

\* ------------------------------------ properties of the stored mappings

\* C27: after any sequence of imports and re-imports of a document, the
\* slug of every stored old-sequence mapping is the slug of a statement
\* stored for the document.
C27_MappingsLandOnStatements ==
    \A i \in 1..Len(db.mappings) :
        \E j \in 1..Len(db.statements) : db.statements[j].slug = db.mappings[i].slug

\* ------------------------------------------------ properties of the slugs

\* an import has just stored the statements of its parse
JustImported == call.fn = "import_document" /\ call.outcome = "Document"

\* the slugified display name of a stored statement, 'procedural' when it
\* is empty
NameSlug(st) ==
    IF slugify(r_mister_sub(st.who)) = <<>> THEN <<"procedural">>
    ELSE slugify(r_mister_sub(st.who))

\* the statements up to the i-th that have the i-th statement's name slug
Namesakes(i) == {j \in 1..i : NameSlug(db.statements[j]) = NameSlug(db.statements[i])}

NothingChanged == call.outcome = "None" /\ db = call.before

\* import_document(document, interactive=False) met stored statements
UnattendedOnStatements == call.fn = "import_unattended" /\ call.before.statements # <<>>

C29_WitnessUnattended == UnattendedOnStatements /\ NothingChanged

\* ----------------------------------- properties of the paragraphs kept

\* the OPEN calls of the paragraphs the walk went into
DescendedParagraphs ==
    SelectSeq(log, LAMBDA e : /\ e.tag \in {"ParaText", "ProceduralText"}
                              /\ e.oc = TAG_OPEN
                              /\ e.ret # NO_DESCEND)

\* the data-HoCid of the <p> tags of a list of statements, in order
RECURSIVE ParagraphIdsOf(_)
ParagraphIdsOf(sts) ==
    IF sts = <<>> THEN <<>>
    ELSE [i \in 1..Len(ParaTags(Head(sts).content)) |-> ParaTags(Head(sts).content)[i].id]
             \o ParagraphIdsOf(Tail(sts))

\* the ids the paragraphs met so far carry, in document order
IdsInDocumentOrder ==
    [i \in 1..Len(DescendedParagraphs) |-> ToString(DescendedParagraphs[i].nid)]

\* the <p ...> and </p> of a content
ParaMarks(c) == SelectSeq(c, LAMBDA t : t.k = "p" \/ (t.k = "code" /\ t.s = "</p>"))

\* every <p ...> of the content is closed before the next one opens
WholeBlocks(c) ==
    /\ Len(ParaMarks(c)) % 2 = 0
    /\ \A i \in 1..Len(ParaMarks(c)) : (ParaMarks(c)[i].k = "p") <=> (i % 2 = 1)

\* C30: every ParaText and ProceduralText the walk goes into is one
\* paragraph block of one statement, the statements in list order holding
\* the paragraphs in document order: during the walk in the finalized
\* statements and the open one, and in the statements handed to the caller.
C30_NoParagraphLost ==
    /\ (h.err = "none" /\ pc \in {"walk", "final"})
           => ParagraphIdsOf(h.statements \o h.cur) = IdsInDocumentOrder
    /\ pc = "done"
           => /\ ParagraphIdsOf(doc) = IdsInDocumentOrder
              /\ \A i \in 1..Len(doc) : WholeBlocks(doc[i].content)

\* a parse returned two statements with the paragraphs it went into, and
\* left a heading of the table of contents out
C30_Witness ==
    /\ pc = "done"
    /\ Len(doc) >= 2
    /\ Len(DescendedParagraphs) >= 2
    /\ \E i \in 1..Len(log) : log[i].tag = "ProceduralText" /\ log[i].ret = NO_DESCEND

====
